---- MODULE Spec2Model ----
(***************************************************************************)
(* Retrieval engine of Styling-GenAI (src/app/rag.py): DocumentProcessor,  *)
(* VectorStore and RAGSystem, with the configuration of src/config.py.     *)
(*                                                                         *)
(* Text is modelled by TLA+ strings (Len, \o and SubSeq act on them as on  *)
(* Python str).  A vector is a tuple of integers; a normalized vector has  *)
(* length 10, and a similarity score is the inner product of two           *)
(* normalized vectors, i.e. the cosine in hundredths (70 is 0.70).         *)
(***************************************************************************)
EXTENDS Integers, Sequences, FiniteSets, TLC

VARIABLES
    kb,              \* the knowledge-base directory: which of KnowledgeBases is on disk
    disk,            \* the three persisted artifacts under data/vector_index
    index,           \* VectorStore.index
    documents,       \* VectorStore.documents
    embeddings,      \* VectorStore.embeddings
    is_initialized,  \* RAGSystem.is_initialized
    call,            \* the last call made on the engine and its outcome
    rebuild,         \* a thread inside initialize(force_rebuild=True): where it
                     \* is and the chunk list it holds
    bot              \* StyleBot: context.interaction_count,
                     \* context.conversation_history and memory.chat_memory

vars == <<kb, disk, index, documents, embeddings, is_initialized, call, rebuild,
          bot>>
store == <<index, documents, embeddings>>

---------------------------------------------------------------------------
(* Configuration, src/config.py *)

top_k_results == 3
similarity_threshold == 70
chunk_size == 500
chunk_overlap == 50

---------------------------------------------------------------------------
(* Bounds of the model *)

\* max_context_length ranges over 0, BudgetStep, ..., MaxBudgetSteps * BudgetStep,
\* the default of get_relevant_context and the lengths at which two or three
\* blocks of one knowledge base fit exactly
MaxBudgetSteps == 2
BudgetStep == 100

\* the k arguments of similarity_search tried: none, and 1 to MaxK
MaxK == 4

---------------------------------------------------------------------------
(* Python str and list helpers *)

Min(a, b) == IF a <= b THEN a ELSE b

\* Python's None, and JSON's null once parsed
None == [none |-> TRUE]

\* sub in s
Contains(sub, s) ==
    \E i \in 1..(Len(s) - Len(sub) + 1) : SubSeq(s, i, i + Len(sub) - 1) = sub

EndsWith(s, suffix) ==
    /\ Len(s) >= Len(suffix)
    /\ SubSeq(s, Len(s) - Len(suffix) + 1, Len(s)) = suffix

LowerChar(c) ==
    CASE c = "A" -> "a" [] c = "B" -> "b" [] c = "C" -> "c" [] c = "D" -> "d"
      [] c = "E" -> "e" [] c = "F" -> "f" [] c = "G" -> "g" [] c = "H" -> "h"
      [] c = "I" -> "i" [] c = "J" -> "j" [] c = "K" -> "k" [] c = "L" -> "l"
      [] c = "M" -> "m" [] c = "N" -> "n" [] c = "O" -> "o" [] c = "P" -> "p"
      [] c = "Q" -> "q" [] c = "R" -> "r" [] c = "S" -> "s" [] c = "T" -> "t"
      [] c = "U" -> "u" [] c = "V" -> "v" [] c = "W" -> "w" [] c = "X" -> "x"
      [] c = "Y" -> "y" [] c = "Z" -> "z" [] OTHER -> c

\* the recursions below run over a position in a fixed string or list

\* s.lower()
Lower(s) ==
    LET RECURSIVE from(_)
        from(i) == IF i > Len(s) THEN ""
                   ELSE LowerChar(SubSeq(s, i, i)) \o from(i + 1)
    IN from(1)

IsSpace(c) == c \in {" ", "\n", "\t", "\r"}

\* the position of the first character of s that is no whitespace
FirstInk(s) ==
    LET RECURSIVE from(_)
        from(i) == IF i <= Len(s) /\ IsSpace(SubSeq(s, i, i)) THEN from(i + 1) ELSE i
    IN from(1)

\* the position of the last character of s that is no whitespace
LastInk(s) ==
    LET RECURSIVE from(_)
        from(i) == IF i >= 1 /\ IsSpace(SubSeq(s, i, i)) THEN from(i - 1) ELSE i
    IN from(Len(s))

\* s.strip()
Strip(s) == SubSeq(s, FirstInk(s), LastInk(s))

\* sep.join(parts)
Join(sep, parts) ==
    LET RECURSIVE from(_)
        from(i) == IF i > Len(parts) THEN ""
                   ELSE IF i = Len(parts) THEN parts[i]
                   ELSE parts[i] \o sep \o from(i + 1)
    IN from(1)

\* d.get(key, default)
Get(d, key, default) == IF key \in DOMAIN d THEN d[key] ELSE default

\* the concatenation of a sequence of sequences
Flatten(ss) ==
    LET RECURSIVE from(_)
        from(i) == IF i > Len(ss) THEN <<>> ELSE ss[i] \o from(i + 1)
    IN from(1)

---------------------------------------------------------------------------
(* The embedding model and the vector arithmetic of faiss *)

\* SentenceTransformer.encode for one text: a fixed function of the text.
\* The model is external; this one separates the texts of the knowledge
\* bases and queries below into four directions of the plane.
encode(text) ==
    IF Contains("hoodie", text) THEN <<3, 4>>
    ELSE IF Contains("shirt", text) THEN <<4, 3>>
    ELSE IF Contains("eturn", text) THEN <<0, 5>>
    ELSE <<5, 0>>

ISqrt(n) == CHOOSE r \in 0..n : r * r <= n /\ (r + 1) * (r + 1) > n

L2Norm(v) == ISqrt(v[1] * v[1] + v[2] * v[2])

\* faiss.normalize_L2 on one row: the row scaled to length 10
normalize_L2(v) == [i \in DOMAIN v |-> (v[i] * 10) \div L2Norm(v)]

\* the inner product IndexFlatIP computes, in hundredths
InnerProduct(u, v) == u[1] * v[1] + u[2] * v[2]

---------------------------------------------------------------------------
(* DocumentProcessor *)

Document(page_content, metadata) ==
    [page_content |-> page_content, metadata |-> metadata]

\* a readable and well-formed source file; a file that cannot be read or
\* parsed raises inside the loader's try block
Loadable(f) == f.ok

\* markdown.markdown followed by the tag-stripping re.sub: the files of the
\* model hold one paragraph of plain text, which the conversion wraps in
\* <p>..</p> and the substitution unwraps again
MarkdownToText(content) == content

\* load_markdown_files without the per-file try: the first file that raises
\* ends the loop
load_markdown_files_aborting(directory) ==
    LET RECURSIVE from(_)
        from(i) ==
            IF i > Len(directory) THEN <<>>
            ELSE IF ~EndsWith(directory[i].name, ".md") THEN from(i + 1)
            ELSE IF ~Loadable(directory[i]) THEN <<>>
            ELSE <<Document(MarkdownToText(directory[i].content),
                            [source |-> "app/knowledge_base/" \o directory[i].name,
                             type |-> "markdown",
                             filename |-> directory[i].name])>> \o from(i + 1)
    IN from(1)

\* load_markdown_files: one Document per *.md file, in directory order;
\* a file that raises is logged and skipped
load_markdown_files(directory) ==
    Flatten([i \in 1..Len(directory) |->
        IF EndsWith(directory[i].name, ".md") /\ Loadable(directory[i])
        THEN <<Document(MarkdownToText(directory[i].content),
                        [source |-> "app/knowledge_base/" \o directory[i].name,
                         type |-> "markdown",
                         filename |-> directory[i].name])>>
        ELSE <<>>])

CommaJoin(d, key) == Join(", ", Get(d, key, <<>>))

PriceText(product) ==
    IF "base_price" \in DOMAIN product THEN ToString(product.base_price) ELSE "N/A"

\* the readable product description of _process_products_json
ProductContent(product) ==
    Strip("\nProduct: " \o Get(product, "name", "Unknown")
          \o "\nID: " \o Get(product, "id", "N/A")
          \o "\nCategory: " \o Get(product, "category", "N/A")
          \o "\nPrice: $" \o PriceText(product)
          \o "\nDescription: " \o Get(product, "description", "N/A")
          \o "\nSizes Available: " \o CommaJoin(product, "sizes")
          \o "\nColors Available: " \o CommaJoin(product, "colors")
          \o "\nMaterials: " \o CommaJoin(product, "materials")
          \o "\nFeatures: " \o CommaJoin(product, "features")
          \o "\nCustomization Options: " \o CommaJoin(product, "customization_options")
          \o "\nStock Status: " \o Get(product, "stock_status", "N/A")
          \o "\nLead Time: " \o Get(product, "lead_time", "N/A")
          \o "\n                ")

\* JSON null is None.  Building the description of a product entry raises
\* when the entry is null: None has no get
EntryRaises(product) == product = None

\* str(True), str(False)
BoolText(b) == IF b THEN "True" ELSE "False"

\* json.dumps(obj, indent=2) of an object whose values are strings; the
\* object is the sequence of its <<key, value>> pairs in file order
JsonDumps(obj) ==
    IF Len(obj) = 0 THEN "{}"
    ELSE "{\n"
         \o Join(",\n", [i \in 1..Len(obj) |->
                           "  \"" \o obj[i][1] \o "\": \"" \o obj[i][2] \o "\""])
         \o "\n}"

\* building the customization text raises when the record or its rush_order
\* is null
CustomizationRaises(custom_info) ==
    \/ custom_info = None
    \/ Get(custom_info, "rush_order", <<>>) = None

\* the readable customization text of _process_products_json; numbers and
\* booleans are formatted by str
CustomizationContent(custom_info) ==
    LET rush_order == Get(custom_info, "rush_order", <<>>)
    IN  Strip("\nCustomization Information:"
              \o "\nAccepted Design Formats: " \o CommaJoin(custom_info, "design_formats")
              \o "\nMinimum Resolution: " \o Get(custom_info, "minimum_resolution", "N/A")
              \o "\nMaximum Colors: "
              \o (IF "maximum_colors" \in DOMAIN custom_info
                  THEN ToString(custom_info.maximum_colors) ELSE "N/A")
              \o "\nDesign Areas: " \o JsonDumps(Get(custom_info, "design_areas", <<>>))
              \o "\nRush Order Available: "
              \o (IF "available" \in DOMAIN rush_order
                  THEN BoolText(rush_order.available) ELSE "N/A")
              \o "\nRush Order Cost: $"
              \o (IF "additional_cost" \in DOMAIN rush_order
                  THEN ToString(rush_order.additional_cost) ELSE "N/A")
              \o "\nRush Order Lead Time: " \o Get(rush_order, "lead_time", "N/A")
              \o "\n            ")

\* the Document of one product entry.  Every entry of the model that is not
\* null carries id, category and base_price, so the metadata values are
\* never None.
ProductDocument(product, source) ==
    Document(ProductContent(product),
             [source |-> source,
              type |-> "product",
              product_id |-> product.id,
              category |-> product.category,
              price |-> product.base_price])

CustomizationDocument(custom_info, source) ==
    Document(CustomizationContent(custom_info),
             [source |-> source, type |-> "customization_info"])

\* the entries of data["products"] before the first one that raises
EntriesDone(products) ==
    LET RECURSIVE from(_)
        from(i) == IF i > Len(products) \/ EntryRaises(products[i]) THEN i - 1
                   ELSE from(i + 1)
    IN from(1)

\* _process_products_json with the customization text built first
process_products_json_customization_first(data, source) ==
    LET products == IF "products" \in DOMAIN data THEN data.products ELSE <<>>
        done == EntriesDone(products)
        customization == "customization_info" \in DOMAIN data
        custom_raises == customization /\ CustomizationRaises(data.customization_info)
    IN  [raised |-> custom_raises \/ done < Len(products),
         documents |->
            (IF customization /\ ~custom_raises
             THEN <<CustomizationDocument(data.customization_info, source)>>
             ELSE <<>>)
            \o [i \in 1..(IF custom_raises THEN 0 ELSE done) |->
                    ProductDocument(products[i], source)]]

\* _process_products_json: the statements in order, up to the one that
\* raises; documents is its local list, which is lost when it raises
process_products_json(data, source) ==
    LET products == IF "products" \in DOMAIN data THEN data.products ELSE <<>>
        done == EntriesDone(products)
        customization == done = Len(products) /\ "customization_info" \in DOMAIN data
        custom_raises == customization /\ CustomizationRaises(data.customization_info)
    IN  [raised |-> done < Len(products) \/ custom_raises,
         documents |->
            [i \in 1..done |-> ProductDocument(products[i], source)]
            \o (IF customization /\ ~custom_raises
                THEN <<CustomizationDocument(data.customization_info, source)>>
                ELSE <<>>)]

\* the generic branch of load_json_files
GenericDocument(f) ==
    Document(JsonDumps(f.data),
             [source |-> "app/knowledge_base/" \o f.name,
              type |-> "json",
              filename |-> f.name])

\* load_json_files appending each Document to the loader's list as soon as
\* it is built
load_json_files_keeping_partial(directory) ==
    Flatten([i \in 1..Len(directory) |->
        IF ~(EndsWith(directory[i].name, ".json") /\ Loadable(directory[i]))
            THEN <<>>
        ELSE IF directory[i].name = "products.json"
            THEN process_products_json(directory[i].data,
                     "app/knowledge_base/" \o directory[i].name).documents
        ELSE <<GenericDocument(directory[i])>>])

\* load_json_files: products.json goes through _process_products_json, whose
\* list is appended only when it returns; every other file becomes one
\* Document; a file that raises is logged and skipped
load_json_files(directory) ==
    Flatten([i \in 1..Len(directory) |->
        IF ~(EndsWith(directory[i].name, ".json") /\ Loadable(directory[i]))
            THEN <<>>
        ELSE IF directory[i].name = "products.json"
            THEN CHOOSE docs \in
                    {IF out.raised THEN <<>> ELSE out.documents :
                        out \in {process_products_json(directory[i].data,
                                    "app/knowledge_base/" \o directory[i].name)}} :
                    TRUE
        ELSE <<GenericDocument(directory[i])>>])

(* RecursiveCharacterTextSplitter of langchain, with its defaults         *)
(* keep_separator=True and strip_whitespace=True                          *)

\* separators of DocumentProcessor.__init__
Separators == <<"\n\n", "\n", ". ", " ", "">>

\* the leftmost occurrence of the separator in text at or after position p,
\* or 0 when there is none
NextMatch(text, separator, p) ==
    LET M == {j \in p..(Len(text) - Len(separator) + 1) :
                SubSeq(text, j, j + Len(separator) - 1) = separator}
    IN  IF M = {} THEN 0 ELSE CHOOSE m \in M : \A l \in M : m <= l

RECURSIVE pieces_from(_, _, _, _, _)
\* the pieces of text from position start on, the search for the separator
\* resuming at position scan; a kept separator opens the piece that follows
\* it; empty pieces are dropped
pieces_from(text, separator, keep_separator, scan, start) ==
    CHOOSE pieces \in
        {IF m = 0
            THEN (IF start > Len(text) THEN <<>>
                  ELSE <<SubSeq(text, start, Len(text))>>)
         ELSE (IF start > m - 1 THEN <<>> ELSE <<SubSeq(text, start, m - 1)>>)
              \o pieces_from(text, separator, keep_separator, m + Len(separator),
                             IF keep_separator THEN m ELSE m + Len(separator)) :
            m \in {NextMatch(text, separator, scan)}} : TRUE

\* _split_text_with_regex with keep_separator=False: the separators are lost
split_text_with_regex_dropping_separator(text, separator) ==
    IF separator = "" THEN [i \in 1..Len(text) |-> SubSeq(text, i, i)]
    ELSE pieces_from(text, separator, FALSE, 1, 1)

\* _split_text_with_regex with keep_separator: the text is cut before every
\* occurrence of the separator, which stays at the head of the piece that
\* follows it; the empty separator cuts between all characters
split_text_with_regex(text, separator) ==
    IF separator = "" THEN [i \in 1..Len(text) |-> SubSeq(text, i, i)]
    ELSE pieces_from(text, separator, TRUE, 1, 1)

RECURSIVE total(_, _, _)
\* the length of splits[lo..hi] joined
total(splits, lo, hi) ==
    IF lo > hi THEN 0 ELSE Len(splits[lo]) + total(splits, lo + 1, hi)

\* _join_docs: the pieces joined and stripped, nothing when that is empty
join_docs(splits, lo, hi) ==
    CHOOSE docs \in {IF text = "" THEN <<>> ELSE <<text>> :
                        text \in {Strip(Join("", SubSeq(splits, lo, hi)))}} : TRUE

RECURSIVE pop_front(_, _, _, _, _)
\* the inner while loop of _merge_splits: pieces leave the front of
\* current_doc = splits[lo..i-1] until at most chunk_overlap characters stay
\* and piece i fits
pop_front(splits, lo, i, size, overlap) ==
    CHOOSE first \in
        {IF t > overlap \/ (t + Len(splits[i]) > size /\ t > 0)
            THEN pop_front(splits, lo + 1, i, size, overlap)
         ELSE lo : t \in {total(splits, lo, i - 1)}} : TRUE

RECURSIVE merge_from(_, _, _, _, _)
\* the for loop of _merge_splits at piece i with current_doc = splits[lo..i-1]
merge_from(splits, i, lo, size, overlap) ==
    IF i > Len(splits) THEN join_docs(splits, lo, Len(splits))
    ELSE IF total(splits, lo, i - 1) + Len(splits[i]) > size /\ lo < i
        THEN join_docs(splits, lo, i - 1)
             \o merge_from(splits, i + 1, pop_front(splits, lo, i, size, overlap),
                           size, overlap)
    ELSE merge_from(splits, i + 1, lo, size, overlap)

\* _merge_splits with the empty separator: consecutive pieces are joined into
\* chunks of at most chunk_size characters, each chunk starting with the
\* tail of its predecessor
merge_splits(splits, size, overlap) ==
    merge_from(splits, 1, 1, size, overlap)

\* the separator _split_text uses: the first that is empty or occurs in the
\* text, the last one when there is none
separator_index(text, separators) ==
    LET found == {j \in 1..Len(separators) :
                    separators[j] = "" \/ Contains(separators[j], text)}
    IN  IF found = {} THEN Len(separators)
        ELSE CHOOSE j \in found : \A l \in found : j <= l

\* new_separators of _split_text: those after the separator in use, none
\* when that one is empty or does not occur
new_separators(text, separators, k) ==
    IF separators[k] = "" \/ ~Contains(separators[k], text) THEN <<>>
    ELSE SubSeq(separators, k + 1, Len(separators))

RECURSIVE split_text(_, _, _, _)
RECURSIVE split_from(_, _, _, _, _, _)
\* the for loop of _split_text at piece i with _good_splits = splits[g..i-1]:
\* pieces shorter than chunk_size are collected and merged, a longer piece is
\* split with the remaining separators, or kept whole when none remains
split_from(splits, seps, i, g, size, overlap) ==
    IF i > Len(splits) THEN merge_splits(SubSeq(splits, g, Len(splits)), size, overlap)
    ELSE IF Len(splits[i]) < size THEN split_from(splits, seps, i + 1, g, size, overlap)
    ELSE merge_splits(SubSeq(splits, g, i - 1), size, overlap)
         \o (IF seps = <<>> THEN <<splits[i]>>
             ELSE split_text(splits[i], seps, size, overlap))
         \o split_from(splits, seps, i + 1, i + 1, size, overlap)

\* RecursiveCharacterTextSplitter._split_text
split_text(text, separators, size, overlap) ==
    CHOOSE chunks \in
        {split_from(splits, seps, 1, 1, size, overlap) :
            <<splits, seps>> \in
                {<<split_text_with_regex(t, separators[k]),
                   new_separators(t, separators, k)>> :
                    t \in {text}, k \in {separator_index(text, separators)}}} : TRUE

RECURSIVE chunk_documents(_, _, _)
\* the chunks of one document from the j-th on, each a Document with a copy
\* of the document's metadata
chunk_documents(chunks, metadata, j) ==
    IF j > Len(chunks) THEN <<>>
    ELSE <<Document(chunks[j], metadata)>> \o chunk_documents(chunks, metadata, j + 1)

RECURSIVE split_documents_from(_, _, _, _)
\* TextSplitter.split_documents from the i-th document on: the chunks of
\* every document, in the documents' order
split_documents_from(docs, i, size, overlap) ==
    IF i > Len(docs) THEN <<>>
    ELSE (CHOOSE chunked \in
            {chunk_documents(chunks, docs[i].metadata, 1) :
                chunks \in {split_text(docs[i].page_content, Separators,
                                       size, overlap)}} : TRUE)
         \o split_documents_from(docs, i + 1, size, overlap)

\* DocumentProcessor.split_documents, the splitter built with the configured
\* chunk_size and chunk_overlap
split_documents(docs) == split_documents_from(docs, 1, chunk_size, chunk_overlap)

---------------------------------------------------------------------------
(* The knowledge bases the directory can hold *)

Hoodie ==
    [name |-> "Red hoodie", id |-> "P1", category |-> "hoodies",
     base_price |-> 40, sizes |-> <<"S", "M", "L">>]

Shirt ==
    [name |-> "Blue shirt", id |-> "P2", category |-> "shirts",
     base_price |-> 15, description |-> "Plain cotton shirt"]

FaqFile == [name |-> "faq.md", ok |-> TRUE, content |-> "Return policy: 30 days"]

UpperFaqFile ==
    [name |-> "FAQ.md", ok |-> TRUE, content |-> "Shipping and return information"]

GuideFile == [name |-> "guide.md", ok |-> TRUE, content |-> "Washing a hoodie"]

BrokenFile == [name |-> "notes.md", ok |-> FALSE, content |-> ""]

\* a *.json file holds data, what json.load makes of it
Catalog(products) ==
    [name |-> "products.json", ok |-> TRUE, data |-> [products |-> products]]

UnreadableFaq == [name |-> "faq.md", ok |-> FALSE, content |-> ""]

Customization ==
    [design_formats |-> <<"PNG", "SVG">>,
     minimum_resolution |-> "300 DPI",
     maximum_colors |-> 6,
     design_areas |-> << <<"front", "12x16">>, <<"back", "12x16">> >>,
     rush_order |-> [available |-> TRUE, additional_cost |-> 15,
                     lead_time |-> "3 days"]]

\* a customization record whose "rush_order" is null
NullRushOrder == [design_formats |-> <<"PNG">>, rush_order |-> None]

CatalogWith(products, custom_info) ==
    [name |-> "products.json", ok |-> TRUE,
     data |-> [products |-> products, customization_info |-> custom_info]]

CustomizationOnly(custom_info) ==
    [name |-> "products.json", ok |-> TRUE,
     data |-> [customization_info |-> custom_info]]

\* a products.json with neither "products" nor "customization_info"
OtherCatalog ==
    [name |-> "products.json", ok |-> TRUE, data |-> [version |-> "2"]]

\* a products.json that json.load cannot parse
MalformedCatalog ==
    [name |-> "products.json", ok |-> FALSE, data |-> [unparsed |-> TRUE]]

\* another *.json file; text is what the file holds
SizesFile ==
    [name |-> "sizes.json", ok |-> TRUE,
     text |-> "{\"S\": \"small\", \"M\": \"medium\"}",
     data |-> << <<"S", "small">>, <<"M", "medium">> >>]

EmptyObjectFile ==
    [name |-> "sizes.json", ok |-> TRUE, text |-> "{}", data |-> <<>>]

TruncatedJson ==
    [name |-> "sizes.json", ok |-> FALSE, text |-> "{\"S\": ", data |-> <<>>]

\* the products.json files a directory may hold
Catalogs ==
    {Catalog(<<>>), Catalog(<<Hoodie, Shirt>>),
     CatalogWith(<<Hoodie>>, Customization), CustomizationOnly(Customization),
     OtherCatalog, MalformedCatalog,
     Catalog(<<Hoodie, None>>), Catalog(<<None, Shirt>>),
     CatalogWith(<<Hoodie, Shirt>>, NullRushOrder),
     CatalogWith(<<Shirt, None>>, Customization)}

\* the ways Path.glob may list two files
BothOrders(A, B) == {a \o b : a \in A, b \in B} \cup {b \o a : a \in A, b \in B}

\* the *.md files of a directory: each is absent, well-formed or unreadable
MarkdownDirs ==
    BothOrders({<<>>, <<FaqFile>>, <<UnreadableFaq>>},
               {<<>>, <<GuideFile>>, <<BrokenFile>>})

\* the *.json files of a directory
JsonDirs ==
    BothOrders({<<>>} \cup {<<c>> : c \in Catalogs},
               {<<>>, <<SizesFile>>, <<EmptyObjectFile>>, <<TruncatedJson>>})

\* the directories the loaders are applied to: every choice of *.md files
\* beside two choices of *.json files, and the other way round
Directories ==
    {md \o js : md \in MarkdownDirs,
                js \in {<<>>, <<Catalog(<<Hoodie, Shirt>>)>>}}
    \cup {md \o js : md \in {<<>>, <<UnreadableFaq, GuideFile>>}, js \in JsonDirs}

\* a full directory, a small one (fewer chunks than top_k_results) and one
\* from which nothing can be loaded
KnowledgeBases ==
    << <<UpperFaqFile, GuideFile, Catalog(<<Hoodie, Shirt>>)>>,
       <<FaqFile, BrokenFile, Catalog(<<Hoodie>>)>>,
       <<BrokenFile>> >>

Queries == {"do you have a hoodie", "what is your return policy", "hello"}

\* chunked_docs of initialize for each knowledge base: both loaders, then the
\* chunker
ChunkedDocs ==
    [k \in DOMAIN KnowledgeBases |->
        split_documents(load_markdown_files(KnowledgeBases[k])
                        \o load_json_files(KnowledgeBases[k]))]

\* every text the embedding model is asked to encode
Texts ==
    Queries \cup UNION {{docs[i].page_content : i \in DOMAIN docs} :
                          docs \in {ChunkedDocs[k] : k \in DOMAIN KnowledgeBases}}

\* the embedding model's output on those texts
Embedding == [t \in Texts |-> encode(t)]

\* max_context_length of get_relevant_context when the caller gives none
DefaultBudget == 2000



---------------------------------------------------------------------------
(* VectorStore *)

\* a numpy array of embeddings: encode on an empty list gives an array of
\* shape (0,), otherwise one row per text
Array(rows) ==
    [shape |-> IF Len(rows) = 0 THEN <<0>> ELSE <<Len(rows), Len(rows[1])>>,
     rows |-> rows]

\* faiss.IndexFlatIP(d) after add(xb)
IndexFlatIP(d, xb) == [d |-> d, xb |-> xb]

Store(i, d, e) == [index |-> i, documents |-> d, embeddings |-> e]

\* VectorStore.__init__
EmptyStore == Store(None, <<>>, None)

(* The persisted artifacts *)
Missing == [st |-> "missing"]
Corrupt == [st |-> "corrupt"]
File(data) == [st |-> "ok", data |-> data]
Readable(artifact) == artifact.st = "ok"

Artifacts == {"index", "docs", "embeddings"}

\* where an initialize call can fail: the chunker, the embedding model, and
\* each of the three writes of save_index, which either leaves the artifact
\* as it was (the file could not be opened) or leaves a truncated file
Faults ==
    {"none", "split", "encode",
     "write_index", "write_index_partial",
     "dump_docs", "dump_docs_partial",
     "save_embeddings", "save_embeddings_partial"}

\* build_index: the statements in order, up to the one that raises
build_index(s, docs, fault) ==
    LET s1 == Store(s.index, docs, s.embeddings)
        texts == [i \in 1..Len(docs) |-> docs[i].page_content]
        raw == Array([i \in 1..Len(texts) |-> Embedding[texts[i]]])
        s2 == Store(s.index, docs, raw)
        normalized == Array([i \in 1..Len(raw.rows) |-> normalize_L2(raw.rows[i])])
    IN  IF fault = "encode" THEN [store |-> s1, raised |-> TRUE]
        ELSE IF Len(raw.shape) < 2 THEN [store |-> s2, raised |-> TRUE]
        ELSE [store |-> Store(IndexFlatIP(raw.shape[2], normalized.rows),
                              docs, normalized),
              raised |-> FALSE]

\* save_index: index, then documents, then embeddings
save_index(s, dk, fault) ==
    LET d1 == [dk EXCEPT !.index = File(s.index)]
        d2 == [d1 EXCEPT !.docs = File(s.documents)]
        d3 == [d2 EXCEPT !.embeddings = File(s.embeddings)]
    IN  IF s.index = None \/ fault = "write_index"
            THEN [disk |-> dk, raised |-> TRUE]
        ELSE IF fault = "write_index_partial"
            THEN [disk |-> [dk EXCEPT !.index = Corrupt], raised |-> TRUE]
        ELSE IF fault = "dump_docs"
            THEN [disk |-> d1, raised |-> TRUE]
        ELSE IF fault = "dump_docs_partial"
            THEN [disk |-> [d1 EXCEPT !.docs = Corrupt], raised |-> TRUE]
        ELSE IF fault = "save_embeddings"
            THEN [disk |-> d2, raised |-> TRUE]
        ELSE IF fault = "save_embeddings_partial"
            THEN [disk |-> [d2 EXCEPT !.embeddings = Corrupt], raised |-> TRUE]
        ELSE [disk |-> d3, raised |-> FALSE]

\* load_index that reads the embeddings file but does not assign it
load_index_without_embeddings(s, dk) ==
    IF ~Readable(dk.index) THEN [store |-> s, ret |-> FALSE]
    ELSE IF ~Readable(dk.docs)
        THEN [store |-> Store(dk.index.data, s.documents, s.embeddings),
              ret |-> FALSE]
    ELSE IF ~Readable(dk.embeddings)
        THEN [store |-> Store(dk.index.data, dk.docs.data, s.embeddings),
              ret |-> FALSE]
    ELSE [store |-> Store(dk.index.data, dk.docs.data, s.embeddings),
          ret |-> TRUE]

\* load_index: each artifact is read and assigned in turn; the first one
\* that cannot be read ends the call with False
load_index(s, dk) ==
    IF ~Readable(dk.index) THEN [store |-> s, ret |-> FALSE]
    ELSE IF ~Readable(dk.docs)
        THEN [store |-> Store(dk.index.data, s.documents, s.embeddings),
              ret |-> FALSE]
    ELSE IF ~Readable(dk.embeddings)
        THEN [store |-> Store(dk.index.data, dk.docs.data, s.embeddings),
              ret |-> FALSE]
    ELSE [store |-> Store(dk.index.data, dk.docs.data, dk.embeddings.data),
          ret |-> TRUE]

---------------------------------------------------------------------------
(* Search *)

\* Python's None where a str may stand
PyNone == "None"

\* the score faiss reports for a neighbour that does not exist (-FLT_MAX)
NegFltMax == 0 - 1000000

Range(f) == {f[i] : i \in DOMAIN f}

\* IndexFlatIP.search(query, k): the k best positions by inner product,
\* best first, padded with position -1 when the index holds fewer than k
\* vectors.  The order among equal scores is left to faiss: every order is
\* an outcome.
FaissSearch(idx, q, k) ==
    LET N == Len(idx.xb)
        n == Min(k, N)
        Score(i) == InnerProduct(q, idx.xb[i])
        Rankings ==
            {r \in [1..n -> 1..N] :
                /\ \A i, j \in 1..n : i # j => r[i] # r[j]
                /\ \A i \in 1..(n - 1) : Score(r[i]) >= Score(r[i + 1])
                /\ \A j \in (1..N) \ Range(r) : \A i \in 1..n : Score(j) <= Score(r[i])}
    IN  {[i \in 1..k |->
            IF i <= n THEN [score |-> Score(r[i]), idx |-> r[i] - 1]
            ELSE [score |-> NegFltMax, idx |-> 0 - 1]] : r \in Rankings}

\* list[idx] can be evaluated without IndexError
InRange(list, idx) == idx < Len(list) /\ idx >= 0 - Len(list)

\* list[idx], Python indexing (0-based, negative from the end)
PyIndex(list, idx) == IF idx >= 0 THEN list[idx + 1] ELSE list[Len(list) + idx + 1]

\* no threshold test: every entry faiss returns passes
Passes_all(hit) == TRUE

\* the threshold test against 0.6 in place of config.similarity_threshold
Passes_lax(hit) == hit.score >= 60

Passes(hit) == hit.score >= similarity_threshold

\* the loop of similarity_search with "rank": i, the 0-based position
search_results_rank0(docs, hits) ==
    LET RECURSIVE loop(_)
        loop(i) ==
            IF i > Len(hits) THEN <<>>
            ELSE (IF Passes(hits[i])
                  THEN <<[document |-> PyIndex(docs, hits[i].idx),
                          score |-> hits[i].score,
                          rank |-> i - 1]>>
                  ELSE <<>>) \o loop(i + 1)
    IN loop(1)

\* the loop of similarity_search without its score test: every hit that
\* names a chunk becomes a result
search_results_unfiltered(docs, hits) ==
    LET RECURSIVE loop(_)
        loop(i) ==
            IF i > Len(hits) THEN <<>>
            ELSE (IF hits[i].idx >= 0 /\ hits[i].idx < Len(docs)
                  THEN <<[document |-> PyIndex(docs, hits[i].idx),
                          score |-> hits[i].score,
                          rank |-> i]>>
                  ELSE <<>>) \o loop(i + 1)
    IN loop(1)

\* the loop of similarity_search over the hits faiss returned
search_results(docs, hits) ==
    LET RECURSIVE loop(_)
        loop(i) ==
            IF i > Len(hits) THEN <<>>
            ELSE (IF Passes(hits[i])
                  THEN <<[document |-> PyIndex(docs, hits[i].idx),
                          score |-> hits[i].score,
                          rank |-> i]>>
                  ELSE <<>>) \o loop(i + 1)
    IN loop(1)

\* the indexes build_index can produce from the knowledge bases
BuiltIndexes ==
    {build_index(EmptyStore, ChunkedDocs[k], "none").store.index :
        k \in {j \in DOMAIN KnowledgeBases : Len(ChunkedDocs[j]) > 0}}

\* index.search for every built index and query at the configured k
FaissTable ==
    [ix \in BuiltIndexes |->
        [q \in Queries |->
            FaissSearch(ix, normalize_L2(Embedding[q]), top_k_results)]]

\* the hits similarity_search(query) can get from faiss ("k or top_k_results"
\* with no k given)
SearchHits(s, query) ==
    IF s.index = None THEN {<<>>}
    ELSE IF s.index \in BuiltIndexes THEN FaissTable[s.index][query]
    ELSE FaissSearch(s.index, normalize_L2(Embedding[query]), top_k_results)

\* "k = k or config.top_k_results"; 0 stands for no k given (None)
EffectiveK(k) == IF k = 0 THEN top_k_results ELSE k

\* the k arguments tried
Ks == 0..MaxK

\* index.search for every built index, query and k
FaissTableK ==
    [ix \in BuiltIndexes |->
        [q \in Queries |->
            [k \in 1..MaxK |-> FaissSearch(ix, normalize_L2(Embedding[q]), k)]]]

\* the hits similarity_search(query, k) can get from faiss
SearchHitsK(s, query, k) ==
    IF s.index = None THEN {<<>>}
    ELSE IF s.index \in BuiltIndexes /\ EffectiveK(k) \in 1..MaxK
        THEN FaissTableK[s.index][query][EffectiveK(k)]
    ELSE FaissSearch(s.index, normalize_L2(Embedding[query]), EffectiveK(k))

\* similarity_search encoding the query before it looks at the index
similarity_search_encode_first(s, hits, fault) ==
    IF fault = "encode" THEN [raised |-> TRUE, results |-> <<>>]
    ELSE IF s.index = None THEN [raised |-> FALSE, results |-> <<>>]
    ELSE IF \E i \in 1..Len(hits) : Passes(hits[i]) /\ ~InRange(s.documents, hits[i].idx)
        THEN [raised |-> TRUE, results |-> <<>>]
    ELSE [raised |-> FALSE, results |-> search_results(s.documents, hits)]

\* similarity_search catching the failure of the embedding model and
\* answering []
similarity_search_swallowing(s, hits, fault) ==
    IF s.index = None THEN [raised |-> FALSE, results |-> <<>>]
    ELSE IF fault = "encode" THEN [raised |-> FALSE, results |-> <<>>]
    ELSE IF \E i \in 1..Len(hits) : Passes(hits[i]) /\ ~InRange(s.documents, hits[i].idx)
        THEN [raised |-> TRUE, results |-> <<>>]
    ELSE [raised |-> FALSE, results |-> search_results(s.documents, hits)]

\* similarity_search, given the hits: an unbuilt index gives [] before the
\* query is encoded; a failing model or a hit without a document raises
similarity_search(s, hits, fault) ==
    IF s.index = None THEN [raised |-> FALSE, results |-> <<>>]
    ELSE IF fault = "encode" THEN [raised |-> TRUE, results |-> <<>>]
    ELSE IF \E i \in 1..Len(hits) : Passes(hits[i]) /\ ~InRange(s.documents, hits[i].idx)
        THEN [raised |-> TRUE, results |-> <<>>]
    ELSE [raised |-> FALSE, results |-> search_results(s.documents, hits)]

---------------------------------------------------------------------------
(* RAGSystem *)

Sentinel == "No relevant information found in the knowledge base."

Separator == "\n---\n"

\* content_with_source of get_relevant_context
ContentWithSource(doc) ==
    "[Source: " \o Get(doc.metadata, "filename", "unknown") \o "]"
    \o "\n" \o doc.page_content \o "\n"

\* the loop of get_relevant_context with total_length never added to
context_parts_uncounted(results, max_context_length) ==
    LET RECURSIVE loop(_, _)
        loop(i, total_length) ==
            IF i > Len(results) THEN <<>>
            ELSE IF total_length + Len(ContentWithSource(results[i].document))
                        > max_context_length
                THEN <<>>
            ELSE <<ContentWithSource(results[i].document)>>
                 \o loop(i + 1, total_length)
    IN loop(1, 0)

\* the loop of get_relevant_context charging the separator to the budget
context_parts_counting_separators(results, max_context_length) ==
    LET RECURSIVE loop(_, _)
        loop(i, total_length) ==
            IF i > Len(results) THEN <<>>
            ELSE IF total_length + Len(ContentWithSource(results[i].document))
                        > max_context_length
                THEN <<>>
            ELSE <<ContentWithSource(results[i].document)>>
                 \o loop(i + 1, total_length
                                  + Len(ContentWithSource(results[i].document))
                                  + Len(Separator))
    IN loop(1, 0)

\* the loop of get_relevant_context with continue in place of break
context_parts_skipping(results, max_context_length) ==
    LET RECURSIVE loop(_, _)
        loop(i, total_length) ==
            IF i > Len(results) THEN <<>>
            ELSE IF total_length + Len(ContentWithSource(results[i].document))
                        > max_context_length
                THEN loop(i + 1, total_length)
            ELSE <<ContentWithSource(results[i].document)>>
                 \o loop(i + 1, total_length
                                  + Len(ContentWithSource(results[i].document)))
    IN loop(1, 0)

\* the loop of get_relevant_context: context_parts when it ends (the parts
\* appended from result i on, total_length being the length so far)
context_parts(results, max_context_length) ==
    LET RECURSIVE loop(_, _)
        loop(i, total_length) ==
            IF i > Len(results) THEN <<>>
            ELSE IF total_length + Len(ContentWithSource(results[i].document))
                        > max_context_length
                THEN <<>>
            ELSE <<ContentWithSource(results[i].document)>>
                 \o loop(i + 1, total_length
                                  + Len(ContentWithSource(results[i].document)))
    IN loop(1, 0)

\* get_relevant_context answering the sentinel also when no block fits
relevant_context_sentinel_when_empty(results, max_context_length) ==
    IF Len(results) = 0 \/ Len(context_parts(results, max_context_length)) = 0
    THEN Sentinel
    ELSE Join(Separator, context_parts(results, max_context_length))

\* get_relevant_context after the search
relevant_context(results, max_context_length) ==
    IF Len(results) = 0 THEN Sentinel
    ELSE Join(Separator, context_parts(results, max_context_length))

IsProduct(result) == Get(result.document.metadata, "type", PyNone) = "product"

\* search_products inserting each product at the front of product_results
product_results_reversed(results) ==
    LET RECURSIVE loop(_)
        loop(i) ==
            IF i > Len(results) THEN <<>>
            ELSE loop(i + 1)
                 \o (IF IsProduct(results[i])
                     THEN <<[product_id |-> Get(results[i].document.metadata,
                                                "product_id", PyNone),
                             content |-> results[i].document.page_content,
                             score |-> results[i].score]>>
                     ELSE <<>>)
    IN loop(1)

\* search_products after the search
product_results(results) ==
    LET RECURSIVE loop(_)
        loop(i) ==
            IF i > Len(results) THEN <<>>
            ELSE (IF IsProduct(results[i])
                  THEN <<[product_id |-> Get(results[i].document.metadata,
                                             "product_id", PyNone),
                          content |-> results[i].document.page_content,
                          score |-> results[i].score]>>
                  ELSE <<>>) \o loop(i + 1)
    IN loop(1)

\* the FAQ test without lower()
IsFaq_case_sensitive(result) ==
    Contains("faq", Get(result.document.metadata, "filename", ""))

IsFaq(result) ==
    Contains("faq", Lower(Get(result.document.metadata, "filename", "")))

\* get_faq_response after the search
faq_response(results) ==
    LET RECURSIVE loop(_)
        loop(i) ==
            IF i > Len(results) THEN PyNone
            ELSE IF IsFaq(results[i]) THEN results[i].document.page_content
            ELSE loop(i + 1)
    IN loop(1)

\* the calls and the assignment of the flag that initialize makes when it
\* rebuilds, in the order of its statements
RebuildSteps ==
    <<"load_markdown_files", "load_json_files", "split_documents",
      "build_index", "save_index", "is_initialized">>

\* initialize that sets is_initialized before it saves the index
initialize_flag_before_save(e, k, force_rebuild, fault) ==
    LET loaded == load_index(e.store, e.disk)
        s0 == IF force_rebuild THEN e.store ELSE loaded.store
        chunked_docs == ChunkedDocs[k]
        built == build_index(s0, chunked_docs, fault)
        saved == save_index(built.store, e.disk, fault)
        first == IF force_rebuild THEN <<>> ELSE <<"load_index">>
        Out(s, d, i, r, n) ==
            [store |-> s, disk |-> d, is_initialized |-> i, raised |-> r,
             steps |-> first \o n]
    IN  IF ~force_rebuild /\ loaded.ret
            THEN Out(loaded.store, e.disk, TRUE, FALSE, <<"is_initialized">>)
        ELSE IF fault = "split"
            THEN Out(s0, e.disk, e.is_initialized, TRUE, SubSeq(RebuildSteps, 1, 3))
        ELSE IF built.raised
            THEN Out(built.store, e.disk, e.is_initialized, TRUE,
                     SubSeq(RebuildSteps, 1, 4))
        ELSE IF saved.raised
            THEN Out(built.store, saved.disk, TRUE, TRUE,
                     SubSeq(RebuildSteps, 1, 4) \o <<"is_initialized", "save_index">>)
        ELSE Out(built.store, saved.disk, TRUE, FALSE,
                 SubSeq(RebuildSteps, 1, 4) \o <<"is_initialized", "save_index">>)

\* initialize(force_rebuild) on engine state e with knowledge base k in the
\* directory: the statements in order, up to the one that raises; steps are
\* the calls it made (the last one is the one that raised, if any) and the
\* assignment of is_initialized
initialize(e, k, force_rebuild, fault) ==
    LET loaded == load_index(e.store, e.disk)
        s0 == IF force_rebuild THEN e.store ELSE loaded.store
        chunked_docs == ChunkedDocs[k]
        built == build_index(s0, chunked_docs, fault)
        saved == save_index(built.store, e.disk, fault)
        first == IF force_rebuild THEN <<>> ELSE <<"load_index">>
        Out(s, d, i, r, n) ==
            [store |-> s, disk |-> d, is_initialized |-> i, raised |-> r,
             steps |-> first \o n]
    IN  IF ~force_rebuild /\ loaded.ret
            THEN Out(loaded.store, e.disk, TRUE, FALSE, <<"is_initialized">>)
        ELSE IF fault = "split"
            THEN Out(s0, e.disk, e.is_initialized, TRUE, SubSeq(RebuildSteps, 1, 3))
        ELSE IF built.raised
            THEN Out(built.store, e.disk, e.is_initialized, TRUE,
                     SubSeq(RebuildSteps, 1, 4))
        ELSE IF saved.raised
            THEN Out(built.store, saved.disk, e.is_initialized, TRUE,
                     SubSeq(RebuildSteps, 1, 5))
        ELSE Out(built.store, saved.disk, TRUE, FALSE, RebuildSteps)

\* the engine's current state
Engine ==
    [store |-> Store(index, documents, embeddings), disk |-> disk,
     is_initialized |-> is_initialized]

\* "if not self.is_initialized: self.initialize()" at the head of every query
\* a query method that never initializes
auto_initialize_never(e, k, fault) ==
    [store |-> e.store, disk |-> e.disk, is_initialized |-> e.is_initialized,
     raised |-> FALSE]

\* a query method that initializes whether or not the flag is set
auto_initialize_always(e, k, fault) ==
    initialize(e, k, FALSE, fault)

auto_initialize(e, k, fault) ==
    IF e.is_initialized
    THEN [store |-> e.store, disk |-> e.disk, is_initialized |-> TRUE, raised |-> FALSE]
    ELSE initialize(e, k, FALSE, fault)

\* the head every query method shares: auto-initialize, then search.
\* The hits faiss can return once initialize has run (none if it raised)
hits_after_init(out, query) ==
    IF out.raised THEN {<<>>} ELSE SearchHits(out.store, query)

\* the search of a query method: it raises if initialize or the search did
query_head(out, hits, fault) ==
    IF out.raised THEN [raised |-> TRUE, results |-> <<>>]
    ELSE similarity_search(out.store, hits, fault)

\* get_relevant_context: what it returns unless it raised
get_relevant_context(head, max_context_length) ==
    IF head.raised THEN PyNone ELSE relevant_context(head.results, max_context_length)

\* search_products: what it returns unless it raised
search_products(head) ==
    IF head.raised THEN PyNone ELSE product_results(head.results)

\* get_faq_response: what it returns unless it raised
get_faq_response(head) ==
    IF head.raised THEN PyNone ELSE faq_response(head.results)

---------------------------------------------------------------------------
(* StyleBot *)

\* "Keep only last 20 interactions"
HistoryLimit == 20

\* "Last 5 interactions"
HistoryWindow == 5

\* StyleBot.__init__: a fresh ConversationContext and an empty chat memory
NewBot == [interaction_count |-> 0, conversation_history |-> <<>>, memory |-> <<>>]

\* IntentClassifier.classify_intent: every query type scores the number of
\* its keywords that occur in the lowered input; the first type with the
\* highest score wins, general_chat when every score is 0
classify_intent(user_input) ==
    LET intent_keywords ==
            <<[type |-> "product_inquiry",
               keywords |-> {"product", "price", "cost", "buy", "purchase", "available",
                             "stock", "size", "color", "material", "hoodie", "t-shirt",
                             "shirt", "jacket", "do you have", "what colors",
                             "what sizes", "how much"}],
              [type |-> "faq",
               keywords |-> {"how do", "what is", "can i", "policy", "return", "refund",
                             "exchange", "care instructions", "wash", "payment",
                             "account", "discount"}],
              [type |-> "design_consultation",
               keywords |-> {"design", "custom", "create", "want", "idea", "style",
                             "pattern", "color scheme", "theme", "inspiration",
                             "suggest", "recommend", "minimalist", "vintage", "modern",
                             "geometric", "organic"}],
              [type |-> "shipping",
               keywords |-> {"shipping", "delivery", "ship", "order", "tracking",
                             "when will", "how long", "express", "standard",
                             "overnight", "international"}],
              [type |-> "support",
               keywords |-> {"help", "support", "problem", "issue", "contact", "phone",
                             "email", "complaint", "error", "wrong", "cancel",
                             "modify"}]>>
    IN  CHOOSE query_type \in
            {IF \A i \in DOMAIN scores : scores[i] = 0 THEN "general_chat"
             ELSE intent_keywords[CHOOSE i \in DOMAIN scores :
                                    /\ \A j \in DOMAIN scores : scores[j] <= scores[i]
                                    /\ \A j \in 1..(i - 1) : scores[j] < scores[i]].type :
                scores \in
                    {<<Cardinality({kw \in intent_keywords[1].keywords : Contains(kw, lowered)}),
                       Cardinality({kw \in intent_keywords[2].keywords : Contains(kw, lowered)}),
                       Cardinality({kw \in intent_keywords[3].keywords : Contains(kw, lowered)}),
                       Cardinality({kw \in intent_keywords[4].keywords : Contains(kw, lowered)}),
                       Cardinality({kw \in intent_keywords[5].keywords : Contains(kw, lowered)})>> :
                        lowered \in {Lower(user_input)}}} : TRUE

\* LLMInterface.generate_response where no model can be reached: both
\* generators catch the error and return _generate_fallback_response
generate_response(prompt) ==
    "I'm sorry, I'm having trouble processing your request right now. "
    \o "Please try again or contact our support team for assistance."

\* _get_conversation_history_string
get_conversation_history_string(b) ==
    IF Len(b.conversation_history) = 0
        THEN "This is the beginning of our conversation."
    ELSE Join("\n", Flatten(
            [i \in 1..Min(HistoryWindow, Len(b.conversation_history)) |->
                CHOOSE parts \in
                    {<<"User: " \o interaction.user_input,
                       "StyleBot: " \o interaction.response>> :
                        interaction \in
                            {b.conversation_history[
                                Len(b.conversation_history)
                                - Min(HistoryWindow, Len(b.conversation_history)) + i]}} :
                    TRUE]))

\* the handlers of the three query types the conversation reaches:
\* _handle_product_inquiry, _handle_faq and _handle_general_chat; results is
\* what similarity_search gave the engine's query methods.  A suggestion is
\* written as its action.
handle(query_type, user_input, results, history) ==
    CASE query_type = "product_inquiry" ->
            [message |-> generate_response(relevant_context(results, DefaultBudget)
                                           \o user_input),
             type |-> "product_inquiry",
             suggestions |-> [i \in 1..Min(3, Len(product_results(results))) |->
                                "view_product"],
             context |-> relevant_context(results, DefaultBudget)]
      [] query_type = "faq" ->
            [message |-> IF faq_response(results) \notin {PyNone, ""}
                         THEN faq_response(results)
                         ELSE generate_response(relevant_context(results, DefaultBudget)
                                                \o user_input),
             type |-> "faq",
             suggestions |-> <<"contact_support">>]
      [] query_type = "general_chat" ->
            [message |-> generate_response(history \o user_input),
             type |-> "general_chat",
             suggestions |-> <<"start_design", "browse_products", "ask_question">>]

\* _update_conversation_history that keeps the first 20 interactions
update_conversation_history_keeping_first(b, user_input, response, query_type) ==
    [b EXCEPT !.conversation_history =
        SubSeq(@ \o <<[timestamp |-> b.interaction_count,
                       user_input |-> user_input,
                       response |-> response.message,
                       query_type |-> query_type,
                       suggestions_count |-> Len(response.suggestions)]>>,
               1, Min(HistoryLimit, Len(@) + 1))]

\* _update_conversation_history: the interaction is appended and the list
\* cut to its last 20.  The timestamp is the logical time of the call: the
\* interaction count, which grows with every call as datetime.now() does.
update_conversation_history(b, user_input, response, query_type) ==
    [b EXCEPT !.conversation_history =
        SubSeq(@ \o <<[timestamp |-> b.interaction_count,
                       user_input |-> user_input,
                       response |-> response.message,
                       query_type |-> query_type,
                       suggestions_count |-> Len(response.suggestions)]>>,
               IF Len(@) + 1 > HistoryLimit THEN Len(@) + 2 - HistoryLimit ELSE 1,
               Len(@) + 1)]

\* where a chat call can fail: the intent classifier, the retrieval made by
\* the handler, or the generation of the reply
ChatFaults == {"none", "classify", "encode", "generate"}

\* the response of the except clause of chat
ErrorResponse ==
    [message |-> "I apologize, but I'm experiencing some technical difficulties. "
                 \o "Please try again or contact our support team.",
     type |-> "error",
     suggestions |-> <<>>]

\* chat that counts an interaction once it has been handled
chat_counting_handled(b, head, user_input, fault) ==
    IF fault = "classify" \/ head.raised \/ fault = "generate"
        THEN [bot |-> b, response |-> ErrorResponse, history |-> ""]
    ELSE CHOOSE done \in
            {[bot |-> [update_conversation_history(
                            [b EXCEPT !.interaction_count = @ + 1],
                            user_input, response, classify_intent(user_input))
                        EXCEPT !.memory = @ \o <<[type |-> "human", content |-> user_input],
                                                 [type |-> "ai", content |-> response.message]>>],
              response |-> response,
              history |-> history] :
                <<response, history>> \in
                    {<<handle(classify_intent(user_input), user_input, head.results, h), h>> :
                        h \in {get_conversation_history_string(b)}}} : TRUE

\* StyleBot.chat: the interaction is counted, the intent classified and the
\* handler run; then the history and the chat memory are updated.  Whatever
\* raises on the way is caught, and the error response returned.  head is
\* the outcome of the handler's retrieval; history is the string the general
\* chat handler puts in its prompt.
chat(b, head, user_input, fault) ==
    IF fault = "classify" \/ head.raised \/ fault = "generate"
        THEN [bot |-> [b EXCEPT !.interaction_count = @ + 1],
              response |-> ErrorResponse, history |-> ""]
    ELSE CHOOSE done \in
            {[bot |-> [update_conversation_history(
                            [b EXCEPT !.interaction_count = @ + 1],
                            user_input, response, classify_intent(user_input))
                        EXCEPT !.memory = @ \o <<[type |-> "human", content |-> user_input],
                                                 [type |-> "ai", content |-> response.message]>>],
              response |-> response,
              history |-> history] :
                <<response, history>> \in
                    {<<handle(classify_intent(user_input), user_input, head.results, h), h>> :
                        h \in {get_conversation_history_string(b)}}} : TRUE

---------------------------------------------------------------------------
(* The state machine *)

Call(op, args, was_initialized, raised, ret, hits, results) ==
    [op |-> op, args |-> args, was_initialized |-> was_initialized,
     raised |-> raised, ret |-> ret, hits |-> hits, results |-> results,
     steps |-> <<>>, history |-> ""]

NoArgs == [query |-> "", max_context_length |-> 0, force_rebuild |-> FALSE,
           fault |-> "none", k |-> 0, directory |-> <<>>,
           text |-> "", chunk_size |-> 0, chunk_overlap |-> 0]

\* no thread is inside a forced rebuild
Idle == [pc |-> "idle", chunked_docs |-> <<>>]

\* a freshly constructed engine, nothing persisted yet, with one of the
\* knowledge bases ks in the directory
InitWith(ks) ==
    /\ kb \in ks
    /\ disk = [index |-> Missing, docs |-> Missing, embeddings |-> Missing]
    /\ index = None
    /\ documents = <<>>
    /\ embeddings = None
    /\ is_initialized = FALSE
    /\ call = Call("new", NoArgs, FALSE, FALSE, PyNone, <<>>, <<>>)
    /\ rebuild = Idle
    /\ bot = NewBot

SetEngine(out) ==
    /\ index' = out.store.index
    /\ documents' = out.store.documents
    /\ embeddings' = out.store.embeddings
    /\ disk' = out.disk
    /\ is_initialized' = out.is_initialized

\* rag_system.initialize(force_rebuild)
Initialize(force_rebuild, fault) ==
    \E out \in {initialize(Engine, kb, force_rebuild, fault)} :
        /\ SetEngine(out)
        /\ call' = [Call("initialize",
                         [NoArgs EXCEPT !.force_rebuild = force_rebuild,
                                        !.fault = fault],
                         is_initialized, out.raised, PyNone, <<>>, <<>>)
                    EXCEPT !.steps = out.steps]
        /\ UNCHANGED <<kb, rebuild, bot>>

\* rag_system.vector_store.load_index("data/vector_index")
LoadIndex ==
    \E out \in {load_index(Engine.store, disk)} :
        /\ index' = out.store.index
        /\ documents' = out.store.documents
        /\ embeddings' = out.store.embeddings
        /\ call' = Call("load_index", NoArgs, is_initialized, FALSE, out.ret, <<>>, <<>>)
        /\ UNCHANGED <<kb, disk, is_initialized, rebuild, bot>>

QueryArgs(query, max_context_length, fault) ==
    [NoArgs EXCEPT !.query = query, !.fault = fault,
                   !.max_context_length = max_context_length]

\* rag_system.get_relevant_context(query, max_context_length)
GetRelevantContext(query, max_context_length, fault) ==
    /\ is_initialized => fault \in {"none", "encode"}
    /\ \E out \in {auto_initialize(Engine, kb, fault)} :
           /\ SetEngine(out)
           /\ \E hits \in hits_after_init(out, query) :
                \E head \in {query_head(out, hits, fault)} :
                    call' = Call("get_relevant_context",
                                 QueryArgs(query, max_context_length, fault),
                                 is_initialized, head.raised,
                                 get_relevant_context(head, max_context_length),
                                 hits, head.results)
    /\ UNCHANGED <<kb, rebuild, bot>>

\* rag_system.search_products(query)
SearchProducts(query, fault) ==
    /\ is_initialized => fault \in {"none", "encode"}
    /\ \E out \in {auto_initialize(Engine, kb, fault)} :
           /\ SetEngine(out)
           /\ \E hits \in hits_after_init(out, query) :
                \E head \in {query_head(out, hits, fault)} :
                    call' = Call("search_products", QueryArgs(query, 0, fault),
                                 is_initialized, head.raised,
                                 search_products(head), hits, head.results)
    /\ UNCHANGED <<kb, rebuild, bot>>

\* rag_system.get_faq_response(query)
GetFaqResponse(query, fault) ==
    /\ is_initialized => fault \in {"none", "encode"}
    /\ \E out \in {auto_initialize(Engine, kb, fault)} :
           /\ SetEngine(out)
           /\ \E hits \in hits_after_init(out, query) :
                \E head \in {query_head(out, hits, fault)} :
                    call' = Call("get_faq_response", QueryArgs(query, 0, fault),
                                 is_initialized, head.raised,
                                 get_faq_response(head), hits, head.results)
    /\ UNCHANGED <<kb, rebuild, bot>>

\* rag_system.vector_store.similarity_search(query, k)
SimilaritySearch(query, k, fault) ==
    /\ \E hits \in SearchHitsK(Engine.store, query, k) :
         \E out \in {similarity_search(Engine.store, hits, fault)} :
            call' = Call("similarity_search",
                         [NoArgs EXCEPT !.query = query, !.k = k, !.fault = fault],
                         is_initialized, out.raised,
                         IF out.raised THEN PyNone ELSE out.results,
                         hits, out.results)
    /\ UNCHANGED <<kb, disk, index, documents, embeddings, is_initialized, rebuild, bot>>

\* doc_processor.load_markdown_files(directory)
LoadMarkdownFiles(directory) ==
    /\ call' = Call("load_markdown_files", [NoArgs EXCEPT !.directory = directory],
                    is_initialized, FALSE, load_markdown_files(directory), <<>>, <<>>)
    /\ UNCHANGED <<kb, disk, index, documents, embeddings, is_initialized, rebuild, bot>>

\* doc_processor.load_json_files(directory)
LoadJsonFiles(directory) ==
    /\ call' = Call("load_json_files", [NoArgs EXCEPT !.directory = directory],
                    is_initialized, FALSE, load_json_files(directory), <<>>, <<>>)
    /\ UNCHANGED <<kb, disk, index, documents, embeddings, is_initialized, rebuild, bot>>

\* the process ends and a new one constructs the engine: RAGSystem.__init__
\* and VectorStore.__init__; the directory and the artifacts stay
Restart ==
    /\ index' = EmptyStore.index
    /\ documents' = EmptyStore.documents
    /\ embeddings' = EmptyStore.embeddings
    /\ is_initialized' = FALSE
    /\ call' = Call("new", NoArgs, is_initialized, FALSE, PyNone, <<>>, <<>>)
    /\ UNCHANGED <<kb, disk, rebuild, bot>>

\* the knowledge-base directory is edited
KbChange(k) ==
    /\ k # kb
    /\ kb' = k
    /\ call' = Call("kb_change", NoArgs, is_initialized, FALSE, PyNone, <<>>, <<>>)
    /\ UNCHANGED <<disk, index, documents, embeddings, is_initialized, rebuild, bot>>

\* a persisted artifact is removed from data/
ArtifactLost(a) ==
    /\ disk[a] # Missing
    /\ disk' = [disk EXCEPT ![a] = Missing]
    /\ call' = Call("artifact_lost", NoArgs, is_initialized, FALSE, PyNone, <<>>, <<>>)
    /\ UNCHANGED <<kb, index, documents, embeddings, is_initialized, rebuild, bot>>

(* initialize(force_rebuild=True) run by a thread of its own, one statement *)
(* at a time; the other threads' calls fall between its steps               *)

RebuildCall ==
    Call("rebuild", [NoArgs EXCEPT !.force_rebuild = TRUE], is_initialized,
         FALSE, PyNone, <<>>, <<>>)

At(pc) == rebuild.pc = pc

Goto(pc) == rebuild' = [rebuild EXCEPT !.pc = pc]

\* initialize up to the call of build_index: the documents are loaded and split
RebuildBegin ==
    /\ At("idle")
    /\ rebuild' = [pc |-> "documents", chunked_docs |-> ChunkedDocs[kb]]
    /\ call' = RebuildCall
    /\ UNCHANGED <<kb, disk, index, documents, embeddings, is_initialized, bot>>

\* build_index: self.documents = documents
RebuildDocuments ==
    /\ At("documents")
    /\ documents' = rebuild.chunked_docs
    /\ Goto("encode")
    /\ call' = RebuildCall
    /\ UNCHANGED <<kb, disk, index, embeddings, is_initialized, bot>>

\* build_index: self.embeddings = self.embeddings_model.encode(texts)
RebuildEncode ==
    /\ At("encode")
    /\ embeddings' = Array([i \in 1..Len(rebuild.chunked_docs) |->
                              Embedding[rebuild.chunked_docs[i].page_content]])
    /\ Goto("index")
    /\ call' = RebuildCall
    /\ UNCHANGED <<kb, disk, index, documents, is_initialized, bot>>

\* build_index: self.index = faiss.IndexFlatIP(self.embeddings.shape[1]),
\* which raises out of initialize when there is no second dimension
RebuildIndex ==
    /\ At("index")
    /\ IF Len(embeddings.shape) < 2
       THEN /\ rebuild' = Idle
            /\ UNCHANGED index
       ELSE /\ index' = IndexFlatIP(embeddings.shape[2], <<>>)
            /\ Goto("normalize")
    /\ call' = RebuildCall
    /\ UNCHANGED <<kb, disk, documents, embeddings, is_initialized, bot>>

\* build_index: faiss.normalize_L2(self.embeddings), in place
RebuildNormalize ==
    /\ At("normalize")
    /\ embeddings' = Array([i \in 1..Len(embeddings.rows) |->
                              normalize_L2(embeddings.rows[i])])
    /\ Goto("add")
    /\ call' = RebuildCall
    /\ UNCHANGED <<kb, disk, index, documents, is_initialized, bot>>

\* build_index: self.index.add(self.embeddings)
RebuildAdd ==
    /\ At("add")
    /\ index' = IndexFlatIP(index.d, index.xb \o embeddings.rows)
    /\ Goto("save")
    /\ call' = RebuildCall
    /\ UNCHANGED <<kb, disk, documents, embeddings, is_initialized, bot>>

\* save_index, then self.is_initialized = True
RebuildSave ==
    /\ At("save")
    /\ disk' = save_index(Engine.store, disk, "none").disk
    /\ is_initialized' = TRUE
    /\ rebuild' = Idle
    /\ call' = RebuildCall
    /\ UNCHANGED <<kb, index, documents, embeddings, bot>>

\* Spec: the whole life cycle with every fault, on a directory that holds the
\* first or the last (empty) knowledge base; queries use the default budget.
LifecycleKbs == {1, Len(KnowledgeBases)}

Init == InitWith(LifecycleKbs)

Next ==
    \/ \E force_rebuild \in BOOLEAN, fault \in Faults : Initialize(force_rebuild, fault)
    \/ LoadIndex
    \/ \E q \in Queries, fault \in Faults :
          GetRelevantContext(q, DefaultBudget, fault)
    \/ \E q \in Queries, fault \in Faults : SearchProducts(q, fault)
    \/ \E q \in Queries, fault \in Faults : GetFaqResponse(q, fault)
    \/ Restart
    \/ \E k \in LifecycleKbs : KbChange(k)
    \/ \E a \in Artifacts : ArtifactLost(a)

Spec == Init /\ [][Next]_vars

\* the formatted lengths of the chunks of knowledge base k
BlockLen(k, i) == Len(ContentWithSource(ChunkedDocs[k][i]))

\* the budgets that two or three blocks of one knowledge base fill exactly
ExactBudgets ==
    UNION {{BlockLen(k, i) + BlockLen(k, j) + (IF l = j THEN 0 ELSE BlockLen(k, l)) :
                <<i, j, l>> \in {t \in (1..Len(ChunkedDocs[k])) \X (1..Len(ChunkedDocs[k]))
                                        \X (1..Len(ChunkedDocs[k])) :
                                    t[1] < t[2] /\ t[2] <= t[3]}} :
           k \in DOMAIN KnowledgeBases}

\* the max_context_length arguments tried
Budgets ==
    {i * BudgetStep : i \in 0..MaxBudgetSteps} \cup {DefaultBudget} \cup ExactBudgets

\* QuerySpec: every knowledge base and every budget; the only fault is the
\* embedding model failing during a rebuild, and no artifact is lost.
QueryFaults == {"none", "encode"}

QueryInit == InitWith(DOMAIN KnowledgeBases)

QueryNext ==
    \/ \E force_rebuild \in BOOLEAN, fault \in QueryFaults :
          Initialize(force_rebuild, fault)
    \/ \E q \in Queries, m \in Budgets : GetRelevantContext(q, m, "none")
    \/ \E q \in Queries : SearchProducts(q, "none")
    \/ \E q \in Queries : GetFaqResponse(q, "none")
    \/ Restart
    \/ \E k \in DOMAIN KnowledgeBases : KbChange(k)

QuerySpec == QueryInit /\ [][QueryNext]_vars

\* SearchSpec: similarity_search called directly, with every k, on every
\* knowledge base; the only fault is the embedding model failing.
SearchInit == InitWith(DOMAIN KnowledgeBases)

SearchNext ==
    \/ \E force_rebuild \in BOOLEAN, fault \in QueryFaults :
          Initialize(force_rebuild, fault)
    \/ \E q \in Queries, k \in Ks, fault \in QueryFaults : SimilaritySearch(q, k, fault)
    \/ Restart
    \/ \E k \in DOMAIN KnowledgeBases : KbChange(k)

SearchSpec == SearchInit /\ [][SearchNext]_vars

\* PersistSpec: saving and loading, with every fault, while the directory
\* changes between two knowledge bases of different sizes.
PersistKbs == {1, 2}

PersistInit == InitWith(PersistKbs)

PersistNext ==
    \/ \E force_rebuild \in BOOLEAN, fault \in Faults : Initialize(force_rebuild, fault)
    \/ LoadIndex
    \/ Restart
    \/ \E k \in PersistKbs : KbChange(k)
    \/ \E a \in Artifacts : ArtifactLost(a)

PersistSpec == PersistInit /\ [][PersistNext]_vars

\* ConcSpec: the shared engine in a host with several threads; one of them
\* forces a rebuild while the others search the initialized engine.  Nothing
\* fails, and initialize(force_rebuild=False) runs only between rebuilds.
ConcInit == InitWith(PersistKbs)

ConcNext ==
    \/ At("idle") /\ Initialize(FALSE, "none")
    \/ \E k \in PersistKbs : KbChange(k)
    \/ RebuildBegin
    \/ RebuildDocuments
    \/ RebuildEncode
    \/ RebuildIndex
    \/ RebuildNormalize
    \/ RebuildAdd
    \/ RebuildSave
    \/ \E q \in Queries : SimilaritySearch(q, 0, "none")
    \/ \E q \in Queries : is_initialized /\ GetRelevantContext(q, DefaultBudget, "none")

ConcSpec == ConcInit /\ [][ConcNext]_vars

\* LoaderSpec: the two loaders applied to every directory of Directories
\* DocumentProcessor.split_documents on one document, by a processor whose
\* splitter was built with the given chunk_size and chunk_overlap
SplitDocuments(text, size, overlap) ==
    /\ call' = Call("split_documents",
                    [NoArgs EXCEPT !.text = text, !.chunk_size = size,
                                   !.chunk_overlap = overlap],
                    is_initialized, FALSE,
                    split_documents_from(
                        <<Document(text, [source |-> "app/knowledge_base/doc.md",
                                          type |-> "markdown",
                                          filename |-> "doc.md"])>>,
                        1, size, overlap),
                    <<>>, <<>>)
    /\ UNCHANGED <<kb, disk, index, documents, embeddings, is_initialized, rebuild, bot>>

LoaderInit == InitWith({1})

LoaderNext ==
    \/ \E directory \in Directories : LoadMarkdownFiles(directory)
    \/ \E directory \in Directories : LoadJsonFiles(directory)

LoaderSpec == LoaderInit /\ [][LoaderNext]_vars

---------------------------------------------------------------------------
(* Claims about initialize and load_index *)

Called(op) == call.op = op

\* index, chunk list and embedding matrix are those of one build: one vector
\* per chunk, the normalized embedding of that chunk, in the index and in the
\* matrix alike
OneBuild(ix, docs, emb) ==
    /\ ix # None
    /\ emb # None
    /\ Len(ix.xb) = Len(docs)
    /\ emb.rows = ix.xb
    /\ \A i \in 1..Len(docs) : ix.xb[i] = normalize_L2(encode(docs[i].page_content))

\* C1: a second initialize(force_rebuild=False) on an engine that is already
\* initialized is a no-op: index, chunk list, embedding matrix, persisted
\* artifacts and is_initialized are the same after the call as before it.
C1_InitializeIsNoOp ==
    [][(is_initialized /\ call'.op = "initialize" /\ ~call'.args.force_rebuild)
        => UNCHANGED <<index, documents, embeddings, disk, is_initialized>>]_vars

\* C2: the engine is never partially initialized: whenever is_initialized is
\* true, index, chunk list and embedding matrix come from one and the same
\* completed build or load.
C2_NeverPartiallyInitialized ==
    is_initialized => OneBuild(index, documents, embeddings)

\* C3: a load_index that returns False leaves index, chunk list and embedding
\* matrix as they were before the call.
C3_FailedLoadChangesNothing ==
    [][(call'.op = "load_index" /\ call'.ret = FALSE)
        => UNCHANGED <<index, documents, embeddings>>]_vars

---------------------------------------------------------------------------
(* Claims about the query methods.  They are stated on the hits faiss      *)
(* returned to the last call (call.hits, best first) and the chunk list.   *)

Returned(op) == call.op = op /\ ~call.raised

Ranks == 1..Len(call.hits)

\* hit i names a position that holds a chunk
HasChunk(i) == call.hits[i].idx >= 0 /\ call.hits[i].idx < Len(documents)

ChunkOf(i) == documents[call.hits[i].idx + 1]

AtLeastThreshold(i) == call.hits[i].score >= similarity_threshold

\* the members of a set of ranks, best rank first
Ascending(S) ==
    CHOOSE f \in [1..Cardinality(S) -> S] :
        \A i, j \in 1..Cardinality(S) : i < j => f[i] < f[j]

TypeOf(doc) == IF "type" \in DOMAIN doc.metadata THEN doc.metadata.type ELSE PyNone

FilenameOf(doc) ==
    IF "filename" \in DOMAIN doc.metadata THEN doc.metadata.filename ELSE ""

ProductEntry(i) ==
    [product_id |-> ChunkOf(i).metadata.product_id,
     content |-> ChunkOf(i).page_content,
     score |-> call.hits[i].score]

\* the product entries of the ranks in S, best rank first
ProductEntries(S) == [j \in 1..Cardinality(S) |-> ProductEntry(Ascending(S)[j])]

\* C4 as claimed: search_products applies no threshold; it returns every
\* product chunk among the top-k hits, also those scoring below the
\* similarity threshold.
C4_ProductsIgnoreThreshold ==
    Returned("search_products") =>
        call.ret = ProductEntries({i \in Ranks :
                        HasChunk(i) /\ TypeOf(ChunkOf(i)) = "product"})

\* C4 as amended: search_products returns the product chunks among the
\* top-k hits whose score is at least the similarity threshold, best first.
C4_ProductsAtLeastThreshold ==
    Returned("search_products") =>
        call.ret = ProductEntries({i \in Ranks :
                        /\ AtLeastThreshold(i)
                        /\ HasChunk(i)
                        /\ TypeOf(ChunkOf(i)) = "product"})

\* a product chunk was among the top-k hits, scored below the threshold and
\* was left out of what search_products returned
C4_Witness ==
    /\ Returned("search_products")
    /\ \E i \in Ranks : /\ HasChunk(i)
                        /\ ~AtLeastThreshold(i)
                        /\ TypeOf(ChunkOf(i)) = "product"
                        /\ \A j \in 1..Len(call.ret) :
                              call.ret[j].content # ChunkOf(i).page_content

---------------------------------------------------------------------------
(* Claims about get_relevant_context.  The blocks are those of the hits    *)
(* scoring at least the threshold, best first.                             *)

PassingRanks == {i \in Ranks : AtLeastThreshold(i) /\ HasChunk(i)}

NumPassing == Cardinality(PassingRanks)

\* the block of the j-th passing hit
Block(j) == ContentWithSource(ChunkOf(Ascending(PassingRanks)[j]))

RECURSIVE PrefixLen(_)
\* the summed lengths of the first n blocks
PrefixLen(n) == IF n = 0 THEN 0 ELSE PrefixLen(n - 1) + Len(Block(n))

\* the longest prefix of the blocks whose summed lengths are within budget
GreedyCount ==
    CHOOSE n \in 0..NumPassing :
        /\ PrefixLen(n) <= call.args.max_context_length
        /\ n < NumPassing => PrefixLen(n + 1) > call.args.max_context_length

RECURSIVE JoinedBlocks(_)
\* the first n blocks joined with the separator
JoinedBlocks(n) ==
    IF n = 0 THEN ""
    ELSE IF n = 1 THEN Block(1)
    ELSE JoinedBlocks(n - 1) \o Separator \o Block(n)

\* C5: the context assembled from the results, separators included, is
\* never longer than max_context_length plus the length of one result
\* block, whichever block that is.
C5_BudgetRespected ==
    (Returned("get_relevant_context") /\ NumPassing > 0) =>
        \A j \in 1..NumPassing :
            Len(call.ret) <= call.args.max_context_length + Len(Block(j))

\* two blocks or more were joined and the separators took the context past
\* max_context_length
C5_Witness ==
    /\ Returned("get_relevant_context")
    /\ NumPassing >= 2
    /\ call.ret # Sentinel
    /\ Len(call.ret) > call.args.max_context_length

\* C6: the block of a hit scoring below the similarity threshold is never
\* part of the context get_relevant_context returns.
C6_BelowThresholdLeftOut ==
    Returned("get_relevant_context") =>
        \A i \in Ranks :
            (HasChunk(i) /\ ~AtLeastThreshold(i)) =>
                ~Contains(ContentWithSource(ChunkOf(i)), call.ret)

\* a context with a block in it was returned while one of the top-k hits
\* scored below the threshold
C6_Witness ==
    /\ Returned("get_relevant_context")
    /\ call.ret # Sentinel
    /\ call.ret # ""
    /\ \E i \in Ranks : HasChunk(i) /\ ~AtLeastThreshold(i)

\* C7: get_relevant_context returns the sentinel exactly when no hit passed
\* the threshold; when a hit passed it returns the assembled context, which
\* is never the sentinel.
C7_SentinelIffNoResults ==
    Returned("get_relevant_context") =>
        (call.ret = Sentinel <=> ~(\E i \in Ranks : AtLeastThreshold(i)))

\* hits passed the threshold, the first block was over budget and the empty
\* string came back
C7_Witness ==
    /\ Returned("get_relevant_context")
    /\ \E i \in Ranks : AtLeastThreshold(i)
    /\ call.ret = ""

\* C8: the context is the longest prefix, in rank order, of the passing
\* blocks whose summed lengths are within max_context_length; after the
\* first block that does not fit no later block is included.
C8_GreedyPrefix ==
    (Returned("get_relevant_context") /\ NumPassing > 0) =>
        call.ret = JoinedBlocks(GreedyCount)

\* a block did not fit, a later and shorter one would have, and it was
\* left out
C8_Witness ==
    /\ Returned("get_relevant_context")
    /\ NumPassing > 0
    /\ \E j \in (GreedyCount + 2)..NumPassing :
          /\ PrefixLen(GreedyCount) + Len(Block(j)) <= call.args.max_context_length
          /\ ~Contains(Block(j), call.ret)

---------------------------------------------------------------------------
(* Claims about get_faq_response and the order of search_products *)

\* the content of the best hit among the ranks in S, None if S is empty
BestContent(S) ==
    IF S = {} THEN PyNone ELSE ChunkOf(Ascending(S)[1]).page_content

\* C9 as claimed: get_faq_response returns the content of the best top-k hit
\* whose filename contains "faq" (in any case of the letters), whatever that
\* hit scored, and None only when no top-k hit has such a filename.
C9_FaqWhateverScore ==
    Returned("get_faq_response") =>
        call.ret = BestContent({i \in Ranks :
                        HasChunk(i) /\ Contains("faq", Lower(FilenameOf(ChunkOf(i))))})

\* C9 as amended: get_faq_response returns the content of the best hit that
\* scores at least the similarity threshold and whose filename, lower-cased,
\* contains "faq"; None if there is no such hit.
C9_FaqAtLeastThreshold ==
    Returned("get_faq_response") =>
        call.ret = BestContent({i \in Ranks :
                        /\ AtLeastThreshold(i)
                        /\ HasChunk(i)
                        /\ Contains("faq", Lower(FilenameOf(ChunkOf(i))))})

\* None came back although a chunk of an FAQ file was among the top-k hits,
\* below the threshold
C9_Witness ==
    /\ Returned("get_faq_response")
    /\ call.ret = PyNone
    /\ \E i \in Ranks : /\ HasChunk(i)
                        /\ ~AtLeastThreshold(i)
                        /\ Contains("faq", Lower(FilenameOf(ChunkOf(i))))

\* the strictly increasing maps from 1..m into 1..n
Increasing(m, n) ==
    {f \in [1..m -> 1..n] : \A i, j \in 1..m : i < j => f[i] < f[j]}

\* C10: search_products returns only results of the underlying search whose
\* type is "product", all of them, in the order of the search, so with
\* scores that never increase.
C10_ProductsInRankOrder ==
    Returned("search_products") =>
        /\ \E f \in Increasing(Len(call.ret), Len(call.results)) :
              /\ \A j \in 1..Len(call.ret) :
                    /\ TypeOf(call.results[f[j]].document) = "product"
                    /\ call.ret[j].content = call.results[f[j]].document.page_content
                    /\ call.ret[j].score = call.results[f[j]].score
                    /\ call.ret[j].product_id
                         = call.results[f[j]].document.metadata.product_id
              /\ \A i \in 1..Len(call.results) :
                    TypeOf(call.results[i].document) = "product"
                        => \E j \in 1..Len(call.ret) : f[j] = i
        /\ \A j \in 1..(Len(call.ret) - 1) : call.ret[j].score >= call.ret[j + 1].score

\* two products of different scores came back and a result of another type
\* was among the results of the search
C10_Witness ==
    /\ Returned("search_products")
    /\ Len(call.ret) >= 2
    /\ call.ret[1].score > call.ret[2].score
    /\ \E i \in 1..Len(call.results) : TypeOf(call.results[i].document) # "product"

---------------------------------------------------------------------------
(* Claims about initialization on use and failures *)

QueryOps == {"get_relevant_context", "search_products", "get_faq_response"}

QueryFailed ==
    \/ call.args.fault = "encode"
    \/ ~call.was_initialized /\ ~is_initialized

\* C12 as claimed: when the embedding model fails on the query, or the
\* initialization it starts fails, get_relevant_context returns the sentinel
\* and raises nothing.
C12_FailureGivesSentinel ==
    (call.op = "get_relevant_context" /\ QueryFailed) =>
        (~call.raised /\ call.ret = Sentinel)

\* C12 as amended: in those cases get_relevant_context raises the error to
\* its caller and returns nothing, so not the sentinel.
C12_FailurePropagates ==
    (call.op = "get_relevant_context" /\ QueryFailed) =>
        (call.raised /\ call.ret # Sentinel)

\* the embedding model failed on the query of an initialized engine and
\* get_relevant_context raised
C12_Witness ==
    /\ call.op = "get_relevant_context"
    /\ call.was_initialized
    /\ call.args.fault = "encode"
    /\ call.raised

\* C14: initialize that rebuilds over a knowledge base without a loadable
\* document completes: build_index does not raise on the empty chunk list,
\* an index is left and is_initialized is true.
C14_EmptyBuildCompletes ==
    (/\ call.op = "initialize"
     /\ call.args.force_rebuild
     /\ call.args.fault = "none"
     /\ Len(ChunkedDocs[kb]) = 0) =>
        (~call.raised /\ is_initialized /\ index # None)

---------------------------------------------------------------------------
(* Claims about similarity_search called directly *)

\* C13: similarity_search on a store whose index was never built or loaded
\* returns [] for every query and k, also when the embedding model is down,
\* raises nothing and changes nothing.
C13_UnbuiltSearchIsEmpty ==
    [][(call'.op = "similarity_search" /\ index = None) =>
          /\ ~call'.raised
          /\ call'.ret = <<>>
          /\ UNCHANGED <<index, documents, embeddings, disk, is_initialized>>]_vars

\* a freshly constructed store was searched with a k of its own while the
\* embedding model was down, and [] came back
C13_Witness ==
    /\ call.op = "similarity_search"
    /\ index = None
    /\ documents = <<>>
    /\ call.args.fault = "encode"
    /\ call.args.k > 0
    /\ ~call.raised
    /\ call.ret = <<>>

SearchReturned == call.op = "similarity_search" /\ ~call.raised

\* the scores of the results never increase, and each rank is the position
RankedByScore ==
    /\ \A i \in 1..Len(call.ret) : call.ret[i].rank = i
    /\ \A i \in 1..Len(call.ret) : call.ret[i].score = call.hits[i].score
    /\ \A i \in 1..(Len(call.ret) - 1) : call.ret[i].score >= call.ret[i + 1].score

C16_AtMostK ==
    (call.op = "similarity_search" /\ OneBuild(index, documents, embeddings)) =>
        /\ Len(call.hits) = (IF call.args.k = 0 THEN top_k_results ELSE call.args.k)
        /\ call.args.fault = "none" => ~call.raised
        /\ ~call.raised =>
             /\ Len(call.ret) <= Len(call.hits)
             /\ Len(call.ret) <= Len(index.xb)
             /\ \A i \in 1..Len(call.ret) :
                   /\ call.hits[call.ret[i].rank].idx \in 0..(Len(documents) - 1)
                   /\ call.ret[i].document
                        = documents[call.hits[call.ret[i].rank].idx + 1]

\* the index held fewer chunks than k, so faiss padded, and results came back
C16_Witness ==
    /\ SearchReturned
    /\ OneBuild(index, documents, embeddings)
    /\ Len(index.xb) < Len(call.hits)
    /\ \E i \in 1..Len(call.hits) : call.hits[i].idx < 0
    /\ Len(call.ret) >= 1

---------------------------------------------------------------------------
(* Claims about the persisted artifacts *)

\* the stores build_index leaves, one for each knowledge base with chunks
BuiltStores ==
    {build_index(EmptyStore, ChunkedDocs[k], "none").store :
        k \in {j \in DOMAIN KnowledgeBases : Len(ChunkedDocs[j]) > 0}}

\* the artifacts are those a completed save_index of store S leaves
SavedFrom(S) == disk = save_index(S, disk, "none").disk

C18_LoadOnlyConsistent ==
    (call.op = "load_index" /\ call.ret = TRUE) =>
        /\ Len(index.xb) = Len(documents)
        /\ Len(embeddings.rows) = Len(documents)

\* C19: whatever save_index left behind when it failed, a load_index that
\* returns True yields the index, chunk list and embedding matrix of one
\* build.
C19_LoadYieldsOneSave ==
    (call.op = "load_index" /\ call.ret = TRUE) =>
        \E S \in BuiltStores : Store(index, documents, embeddings) = S

---------------------------------------------------------------------------
(* Claim about the engine shared by threads *)

\* the chunk list and the search structure belong to one build
SameBuild(ix, docs) ==
    /\ Len(ix.xb) = Len(docs)
    /\ \A i \in 1..Len(docs) : ix.xb[i] = normalize_L2(encode(docs[i].page_content))

\* C20: a search that runs while another thread rebuilds never sees a
\* half-built index: the chunk list and the search structure it reads
\* belong to one build, and every hit position has a chunk.
C20_NoHalfBuiltObserved ==
    (call.op \in {"similarity_search", "get_relevant_context"} /\ index # None) =>
        /\ SameBuild(index, documents)
        /\ \A i \in 1..Len(call.hits) :
              call.hits[i].idx >= 0 => call.hits[i].idx < Len(documents)

---------------------------------------------------------------------------
(* Claims about the order of the steps of initialize *)

IsPrefix(s, t) == Len(s) <= Len(t) /\ s = SubSeq(t, 1, Len(s))

---------------------------------------------------------------------------
(* Claims about what the query methods leave alone *)

\* C24: on an initialized engine get_relevant_context, search_products and
\* get_faq_response are read-only: whatever they return, and whether or not
\* they raise, index, chunk list, embedding matrix, persisted artifacts and
\* is_initialized are the same after the call as before it.
C24_QueriesReadOnly ==
    [][(is_initialized /\ call'.op \in QueryOps)
        => /\ index' = index
           /\ documents' = documents
           /\ embeddings' = embeddings
           /\ disk' = disk
           /\ is_initialized']_vars

\* a query answered by an initialized engine whose persisted index is gone
C24_Witness ==
    /\ call.op \in QueryOps
    /\ call.was_initialized
    /\ ~call.raised
    /\ Len(call.results) > 0
    /\ disk.index = Missing

---------------------------------------------------------------------------
(* Claims about the budget of get_relevant_context *)

\* C26: only the formatted blocks are counted against the budget, not the
\* separators: the summed lengths of the n included blocks are at most
\* max_context_length and the returned string is that sum plus 5 characters
\* for each of the n - 1 separators, so with two blocks or more it is at
\* most 5 * (n - 1) longer than max_context_length.
C26_SeparatorsUncounted ==
    (Returned("get_relevant_context") /\ NumPassing > 0) =>
        LET n == GreedyCount
            separators == IF n >= 2 THEN n - 1 ELSE 0
        IN  /\ Len(Separator) = 5
            /\ PrefixLen(n) <= call.args.max_context_length
            /\ Len(call.ret) = PrefixLen(n) + 5 * separators
            /\ Len(call.ret) <= call.args.max_context_length + 5 * separators

\* three blocks fill the budget exactly and the context is 10 longer
C26_Witness ==
    /\ Returned("get_relevant_context")
    /\ NumPassing >= 3
    /\ GreedyCount = 3
    /\ Len(call.ret) = call.args.max_context_length + 10

\* C27: when at least one result passed the threshold but the block of the
\* top-ranked one is longer than max_context_length, get_relevant_context
\* returns the empty string: not the sentinel, and no lower-ranked block
\* even if it would fit.
C27_FirstBlockOverBudget ==
    (/\ Returned("get_relevant_context")
     /\ NumPassing > 0
     /\ Len(Block(1)) > call.args.max_context_length)
        => call.ret = "" /\ call.ret # Sentinel

\* the top-ranked block was over budget while a lower-ranked one was not
C27_Witness ==
    /\ Returned("get_relevant_context")
    /\ NumPassing >= 2
    /\ Len(Block(1)) > call.args.max_context_length
    /\ \E j \in 2..NumPassing : Len(Block(j)) <= call.args.max_context_length
    /\ call.ret = ""

---------------------------------------------------------------------------
(* Claims about the loaders.  They are stated on the directory the last    *)
(* call was given (its files in iteration order) and the list it returned. *)

Dir == call.args.directory

PathOf(f) == "app/knowledge_base/" \o f.name

\* the documents of docs that came from source, in their order
FromSource(docs, source) == SelectSeq(docs, LAMBDA d : d.metadata.source = source)

\* the position in the directory of the file a document came from
PosOf(doc) == CHOOSE i \in 1..Len(Dir) : PathOf(Dir[i]) = doc.metadata.source

\* the documents appear in the order of the files they came from
InDirectoryOrder(docs) ==
    \A i, j \in 1..Len(docs) : i < j => PosOf(docs[i]) <= PosOf(docs[j])

IsMarkdown(f) == EndsWith(f.name, ".md")
IsJson(f) == EndsWith(f.name, ".json")

\* C22: a malformed or unreadable file never aborts the load.  Both loaders
\* return normally; each file of their kind that can be read and parsed
\* contributes exactly the documents it yields when loaded alone, a file
\* that cannot contributes none, and the documents come in directory
\* iteration order.
C22_BadFileSkipped ==
    /\ Called("load_markdown_files") =>
         /\ ~call.raised
         /\ InDirectoryOrder(call.ret)
         /\ \A i \in 1..Len(Dir) :
              FromSource(call.ret, PathOf(Dir[i])) =
                  IF IsMarkdown(Dir[i]) /\ Dir[i].ok
                  THEN load_markdown_files(<<Dir[i]>>) ELSE <<>>
         /\ \A i \in 1..Len(Dir) :
              (IsMarkdown(Dir[i]) /\ Dir[i].ok) =>
                  Len(load_markdown_files(<<Dir[i]>>)) = 1
    /\ Called("load_json_files") =>
         /\ ~call.raised
         /\ InDirectoryOrder(call.ret)
         /\ \A i \in 1..Len(Dir) :
              FromSource(call.ret, PathOf(Dir[i])) =
                  IF IsJson(Dir[i]) /\ Dir[i].ok
                  THEN load_json_files(<<Dir[i]>>) ELSE <<>>

\* an unreadable markdown file came first and the one after it was loaded
C22_Witness ==
    /\ Returned("load_markdown_files")
    /\ \E i, j \in 1..Len(Dir) :
          /\ i < j
          /\ IsMarkdown(Dir[i]) /\ ~Dir[i].ok
          /\ IsMarkdown(Dir[j]) /\ Dir[j].ok
          /\ Len(FromSource(call.ret, PathOf(Dir[j]))) = 1

\* a *.json file that is read, parsed and processed without an exception
Processed(f) ==
    /\ IsJson(f) /\ f.ok
    /\ f.name = "products.json" =>
         /\ \A i \in 1..Len(Get(f.data, "products", <<>>)) : f.data.products[i] # None
         /\ "customization_info" \in DOMAIN f.data =>
                ~CustomizationRaises(f.data.customization_info)

\* the documents of a catalog: one product document per entry, in catalog
\* order, then one customization_info document if and only if the catalog
\* has that record
CatalogDocuments(docs, data) ==
    LET products == Get(data, "products", <<>>)
        n == Len(products)
        custom == IF "customization_info" \in DOMAIN data THEN 1 ELSE 0
    IN  /\ Len(docs) = n + custom
        /\ \A i \in 1..n :
              /\ docs[i].metadata.type = "product"
              /\ docs[i].metadata.product_id = products[i].id
              /\ Contains(products[i].name, docs[i].page_content)
        /\ custom = 1 => docs[n + 1].metadata.type = "customization_info"

\* C23 as stated: a product catalog with n product entries yields exactly n
\* product documents in catalog order, followed by exactly one
\* customization_info document if and only if the catalog has that record;
\* every other structured source, a products.json with neither a products
\* list nor a customization info record included, yields exactly one
\* document of type json whose content is the file's, verbatim.
C23_OneJsonDocumentOtherwise ==
    Called("load_json_files") =>
        \A i \in 1..Len(Dir) :
            Processed(Dir[i]) =>
                LET docs == FromSource(call.ret, PathOf(Dir[i]))
                    data == Dir[i].data
                IN  IF /\ Dir[i].name = "products.json"
                       /\ \/ "products" \in DOMAIN data
                          \/ "customization_info" \in DOMAIN data
                    THEN CatalogDocuments(docs, data)
                    ELSE /\ Len(docs) = 1
                         /\ docs[1].metadata.type = "json"
                         /\ "text" \in DOMAIN Dir[i] =>
                                docs[1].page_content = Dir[i].text

\* C23, amended: a products.json that is processed without an exception
\* yields exactly n product documents in catalog order for its n product
\* entries, followed by exactly one customization_info document if and only
\* if it has that record, and so no document at all when it has neither;
\* every other *.json file that parses yields exactly one document of type
\* json whose content is the parsed data serialized again by
\* json.dumps(data, indent=2).
C23_StructuredMapping ==
    Called("load_json_files") =>
        \A i \in 1..Len(Dir) :
            Processed(Dir[i]) =>
                LET docs == FromSource(call.ret, PathOf(Dir[i]))
                    data == Dir[i].data
                IN  IF Dir[i].name = "products.json"
                    THEN CatalogDocuments(docs, data)
                    ELSE /\ Len(docs) = 1
                         /\ docs[1].metadata.type = "json"
                         /\ docs[1].page_content = JsonDumps(data)

\* a products.json with neither record beside another *.json file: the only
\* document is the other file's, its text laid out anew; and a catalog with
\* entries and the customization record
C23_Witness ==
    /\ Returned("load_json_files")
    /\ \/ /\ \E i \in 1..Len(Dir) : Dir[i] = OtherCatalog
          /\ \E i \in 1..Len(Dir) : Dir[i] = SizesFile
          /\ Len(call.ret) = 1
          /\ call.ret[1].metadata.type = "json"
          /\ call.ret[1].page_content # SizesFile.text
       \/ /\ \E i \in 1..Len(Dir) : Dir[i] = CatalogWith(<<Hoodie>>, Customization)
          /\ Len(call.ret) >= 2
          /\ call.ret[1].metadata.type = "product"
          /\ call.ret[2].metadata.type = "customization_info"

\* C28: a products.json whose processing fails at a product entry or at the
\* customization record contributes no document at all, the entries before
\* the failing one included; the other files contribute what they yield
\* when loaded alone.
C28_AllOrNothingPerFile ==
    Called("load_json_files") =>
        \A i \in 1..Len(Dir) :
            (Dir[i].name = "products.json" /\ Dir[i].ok /\ ~Processed(Dir[i])) =>
                /\ FromSource(call.ret, PathOf(Dir[i])) = <<>>
                /\ \A j \in 1..Len(Dir) :
                      (j # i /\ Processed(Dir[j])) =>
                          /\ FromSource(call.ret, PathOf(Dir[j]))
                                 = load_json_files(<<Dir[j]>>)
                          /\ Len(load_json_files(<<Dir[j]>>)) > 0

\* the catalog's first entry was fine, a later entry or the customization
\* record failed, and only the other file's document came back
C28_Witness ==
    /\ Returned("load_json_files")
    /\ \E i, j \in 1..Len(Dir) :
          /\ Dir[i].name = "products.json" /\ Dir[i].ok /\ ~Processed(Dir[i])
          /\ Len(Dir[i].data.products) >= 2
          /\ Dir[i].data.products[1] # None
          /\ Processed(Dir[j])
          /\ call.ret = load_json_files(<<Dir[j]>>)
          /\ Len(call.ret) = 1

---------------------------------------------------------------------------
(* The chunker on its own: every text of at most MaxTextLen characters    *)
(* over an alphabet that holds every separator, every chunk size up to    *)
(* MaxChunkSize and every overlap below the chunk size                    *)

MaxTextLen == 5
MaxChunkSize == 3

Alphabet == {"a", " ", "\n", "."}

RECURSIVE TextsUpTo(_)
TextsUpTo(n) ==
    IF n = 0 THEN {""}
    ELSE {""} \cup {c \o t : c \in Alphabet, t \in TextsUpTo(n - 1)}

\* the document and the splitter's configuration arrive with the first state
SplitInit ==
    /\ kb = 1
    /\ disk = [index |-> Missing, docs |-> Missing, embeddings |-> Missing]
    /\ index = None
    /\ documents = <<>>
    /\ embeddings = None
    /\ is_initialized = FALSE
    /\ rebuild = Idle
    /\ bot = NewBot
    /\ \E text \in TextsUpTo(MaxTextLen), size \in 1..MaxChunkSize :
            \E overlap \in 0..(size - 1) :
                call = Call("new", [NoArgs EXCEPT !.text = text,
                                                  !.chunk_size = size,
                                                  !.chunk_overlap = overlap],
                            FALSE, FALSE, PyNone, <<>>, <<>>)

SplitNext ==
    /\ call.op = "new"
    /\ SplitDocuments(call.args.text, call.args.chunk_size, call.args.chunk_overlap)

SplitSpec == SplitInit /\ [][SplitNext]_vars

---------------------------------------------------------------------------
(* Claims about the chunker *)

RECURSIVE InkFrom(_, _)
InkFrom(s, i) ==
    IF i > Len(s) THEN ""
    ELSE (IF IsSpace(SubSeq(s, i, i)) THEN "" ELSE SubSeq(s, i, i)) \o InkFrom(s, i + 1)

\* s without its whitespace
Ink(s) == InkFrom(s, 1)

\* s as it is compared: as it stands, or without its whitespace
Compared(s, exactly) == IF exactly THEN s ELSE Ink(s)

\* the state after split_documents on one document
Split == call.op = "split_documents"

SplitChunks == [i \in 1..Len(call.ret) |-> call.ret[i].page_content]

RECURSIVE InSourceOrder(_, _, _, _)
\* the chunks from the i-th on are slices of the text that start at
\* positions p <= p_i <= p_(i+1) <= ...
InSourceOrder(chunks, text, i, p) ==
    \/ i > Len(chunks)
    \/ \E q \in p..(Len(text) - Len(chunks[i]) + 1) :
            /\ SubSeq(text, q, q + Len(chunks[i]) - 1) = chunks[i]
            /\ InSourceOrder(chunks, text, i + 1, q)

RECURSIVE Rebuilds(_, _, _, _, _, _)
\* the chunks from the i-th on reproduce the content from position p on,
\* once every chunk but the first has lost an overlap: at most `overlap` of
\* its leading characters, which repeat what precedes them in the content.
\* content is Compared already.
Rebuilds(chunks, content, overlap, exactly, i, p) ==
    IF i > Len(chunks) THEN p = Len(content) + 1
    ELSE \E o \in 0..(IF i = 1 THEN 0 ELSE Min(overlap, Len(chunks[i]))) :
           \E shared \in {Compared(SubSeq(chunks[i], 1, o), exactly)},
              fresh \in {Compared(SubSeq(chunks[i], o + 1, Len(chunks[i])), exactly)} :
                /\ Len(shared) < p
                /\ p + Len(fresh) - 1 <= Len(content)
                /\ SubSeq(content, p - Len(shared), p - 1) = shared
                /\ SubSeq(content, p, p + Len(fresh) - 1) = fresh
                /\ \E q \in {p + Len(fresh)} :
                        Rebuilds(chunks, content, overlap, exactly, i + 1, q)

ChunksBounded ==
    \A i \in 1..Len(call.ret) : Len(call.ret[i].page_content) <= call.args.chunk_size

---------------------------------------------------------------------------
(* The conversation: the engine as StyleBot's constructor leaves it, and  *)
(* chat calls one after the other                                         *)

MaxChats == 22
MaxFailedChats == 1

\* what the users say, turn after turn
UserInputs == <<"do you have a hoodie", "what is your return policy", "hello">>

\* the handler of the input's query type calls the engine
Retrieves(user_input, fault) ==
    fault # "classify" /\ classify_intent(user_input) \in {"product_inquiry", "faq"}

\* stylebot.chat(user_input)
Chat(user_input, fault) ==
    /\ fault = "encode" => Retrieves(user_input, fault)
    /\ \E out \in {IF Retrieves(user_input, fault)
                   THEN auto_initialize(Engine, kb, fault)
                   ELSE [store |-> Engine.store, disk |-> disk,
                         is_initialized |-> is_initialized, raised |-> FALSE]} :
           /\ SetEngine(out)
           /\ \E hits \in (IF Retrieves(user_input, fault)
                           THEN hits_after_init(out, user_input) ELSE {<<>>}) :
                \E head \in {IF Retrieves(user_input, fault)
                             THEN query_head(out, hits, fault)
                             ELSE [raised |-> FALSE, results |-> <<>>]} :
                    \E done \in {chat(bot, head, user_input, fault)} :
                        /\ bot' = done.bot
                        /\ call' = [Call("chat",
                                         [NoArgs EXCEPT !.query = user_input,
                                                        !.fault = fault],
                                         is_initialized, FALSE, done.response,
                                         hits, head.results)
                                    EXCEPT !.history = done.history]
    /\ UNCHANGED <<kb, rebuild>>

\* StyleBot.__init__ has run: rag_system.initialize() was tried, and a failure
\* of it logged
ChatInit ==
    \E fault \in {"none", "encode"} :
        \E out \in {initialize([store |-> EmptyStore,
                                disk |-> [index |-> Missing, docs |-> Missing,
                                          embeddings |-> Missing],
                                is_initialized |-> FALSE], 1, FALSE, fault)} :
            /\ kb = 1
            /\ disk = out.disk
            /\ index = out.store.index
            /\ documents = out.store.documents
            /\ embeddings = out.store.embeddings
            /\ is_initialized = out.is_initialized
            /\ call = Call("new", NoArgs, FALSE, FALSE, None, <<>>, <<>>)
            /\ rebuild = Idle
            /\ bot = NewBot

\* the users take turns in the order of UserInputs; at most MaxChats calls,
\* of which at most MaxFailedChats fail
ChatNext ==
    \E fault \in ChatFaults :
        /\ bot.interaction_count < MaxChats
        /\ fault # "none" =>
                bot.interaction_count - Len(bot.memory) \div 2 < MaxFailedChats
        /\ Chat(UserInputs[(bot.interaction_count % Len(UserInputs)) + 1], fault)

ChatSpec == ChatInit /\ [][ChatNext]_vars

---------------------------------------------------------------------------
(* Claims about chat *)

\* the interactions handled so far: the chat memory holds a user message and
\* an assistant message for each
Handled == Len(bot.memory) \div 2

\* C29: chat never raises to its caller.  Every call counts one interaction.
\* When intent handling, retrieval or generation raises, the response has
\* type "error" and no suggestions, and conversation_history and the chat
\* memory are as they were; otherwise exactly one entry is appended to the
\* history (which is then cut to its limit) and one user/assistant pair to
\* the memory.
C29_ChatNeverRaises ==
    [][call'.op = "chat" =>
        /\ ~call'.raised
        /\ bot'.interaction_count = bot.interaction_count + 1
        /\ call'.args.fault # "none" =>
            /\ call'.ret.type = "error"
            /\ call'.ret.suggestions = <<>>
            /\ bot'.conversation_history = bot.conversation_history
            /\ bot'.memory = bot.memory
        /\ call'.args.fault = "none" =>
            /\ call'.ret.type # "error"
            /\ bot'.memory =
                 bot.memory \o <<[type |-> "human", content |-> call'.args.query],
                                 [type |-> "ai", content |-> call'.ret.message]>>
            /\ \E entry \in {bot'.conversation_history[Len(bot'.conversation_history)]} :
                 /\ entry.user_input = call'.args.query
                 /\ entry.response = call'.ret.message
                 /\ entry.query_type = call'.ret.type
                 /\ \/ bot'.conversation_history =
                         bot.conversation_history \o <<entry>>
                    \/ /\ Len(bot.conversation_history) = HistoryLimit
                       /\ bot'.conversation_history =
                            Tail(bot.conversation_history) \o <<entry>>]_vars

\* a call that failed after others were handled
C29_Witness ==
    /\ call.op = "chat"
    /\ call.ret.type = "error"
    /\ call.args.fault \in {"classify", "encode", "generate"}
    /\ Len(bot.conversation_history) > 0
    /\ bot.interaction_count = Handled + 1

\* the history string of the interactions lo..hi of the chat memory
HistoryLines(lo, hi) ==
    Join("\n", Flatten([j \in 1..(hi - lo + 1) |->
        <<"User: " \o bot.memory[2 * (lo + j - 1) - 1].content,
          "StyleBot: " \o bot.memory[2 * (lo + j - 1)].content>>]))

\* C30: conversation_history holds at most 20 entries, which are the most
\* recent interactions that were handled, oldest first; and the history
\* string that general chat builds is made of the last 5 interactions
\* handled before the call.
C30_HistoryWindow ==
    /\ Len(bot.conversation_history) = Min(HistoryLimit, Handled)
    /\ Len(bot.conversation_history) <= 20
    /\ \A i \in 1..Len(bot.conversation_history) :
        \E j \in {Handled - Len(bot.conversation_history) + i} :
            /\ bot.conversation_history[i].user_input = bot.memory[2 * j - 1].content
            /\ bot.conversation_history[i].response = bot.memory[2 * j].content
    /\ \A i \in 1..(Len(bot.conversation_history) - 1) :
        bot.conversation_history[i].timestamp
            < bot.conversation_history[i + 1].timestamp
    /\ (call.op = "chat" /\ call.ret.type = "general_chat") =>
        call.history =
            IF Handled = 1 THEN "This is the beginning of our conversation."
            ELSE HistoryLines(IF Handled - 1 > 5 THEN Handled - 5 ELSE 1, Handled - 1)

\* more than 20 interactions were handled, the last of them general chat
C30_Witness ==
    /\ Handled > HistoryLimit
    /\ Len(bot.conversation_history) = HistoryLimit
    /\ call.op = "chat"
    /\ call.ret.type = "general_chat"
    /\ bot.conversation_history[1].timestamp > 1

====
